---- MODULE Spec2Model ----
(***************************************************************************)
(* Session-log analysis scripts (src/analysis/scripts): the line decoders, *)
(* the tool-result lookup and the pattern detectors, as state machines.    *)
(*                                                                         *)
(* A log line is a sequence of characters.  Characters of no structural    *)
(* meaning are grouped into words ("bd", "update", "loop_meta"), each      *)
(* standing for a fixed run of letters; the structural characters of the   *)
(* JSON text (braces, brackets, quote, colon, comma, blank, newline) are   *)
(* single characters.  A decoded value is a record [t, s, kids]:           *)
(*   t    the Python type of the value (str, num, bool, null, list, obj),  *)
(*   s    the characters of a str, the literal of a num or bool,           *)
(*   kids the items of a list, or the (key, value) pairs of an obj, in     *)
(*        insertion order.                                                 *)
(***************************************************************************)
EXTENDS Integers, Sequences, FiniteSets, TLC

(* ---------------------------------------------------------------------- *)
(* Characters                                                              *)
(* ---------------------------------------------------------------------- *)
Quote == "\""
LBrace == "{"
RBrace == "}"
LBrack == "["
RBrack == "]"
Colon == ":"
Comma == ","
Blank == " "
Newline == "\n"

\* str.strip() removes these from both ends; json.loads skips them between tokens
Whitespace == {Blank, Newline}
\* raw control characters, which json.loads rejects inside a string literal
ControlChars == {Newline}
NumLits == {"0", "1", "2", "42"}
BoolLits == {"true", "false"}

(* ---------------------------------------------------------------------- *)
(* Python values                                                           *)
(* ---------------------------------------------------------------------- *)
JStr(cs) == [t |-> "str", s |-> cs, kids |-> <<>>]
JNum(n) == [t |-> "num", s |-> <<n>>, kids |-> <<>>]
JBool(b) == [t |-> "bool", s |-> <<b>>, kids |-> <<>>]
JNull == [t |-> "null", s |-> <<>>, kids |-> <<>>]
JList(vs) == [t |-> "list", s |-> <<>>,
              kids |-> [i \in 1..Len(vs) |-> [k |-> <<>>, v |-> vs[i]]]]
JObj(pairs) == [t |-> "obj", s |-> <<>>, kids |-> pairs]
KV(key, val) == [k |-> key, v |-> val]
JTrue == JBool("true")
JFalse == JBool("false")
EmptyStr == JStr(<<>>)
EmptyObj == JObj(<<>>)
EmptyList == JList(<<>>)

IsObj(v) == v.t = "obj"
IsList(v) == v.t = "list"
IsStr(v) == v.t = "str"

\* bool(v): None, False, 0, "", [] and {} are false, every other value true
Truthy(v) ==
    CASE v.t = "null" -> FALSE
      [] v.t = "bool" -> v.s = <<"true">>
      [] v.t = "num" -> v.s # <<"0">>
      [] v.t = "str" -> v.s # <<>>
      [] OTHER -> v.kids # <<>>

HasKey(o, key) == \E i \in 1..Len(o.kids) : o.kids[i].k = key

\* dict.get(key, default) of a dict o
Get(o, key, default) ==
    IF HasKey(o, key)
    THEN o.kids[CHOOSE i \in 1..Len(o.kids) : o.kids[i].k = key].v
    ELSE default

\* d[key] = val: a key already present keeps its place
SetKey(pairs, key, val) ==
    IF \E i \in 1..Len(pairs) : pairs[i].k = key
    THEN [i \in 1..Len(pairs) |->
              IF pairs[i].k = key THEN KV(key, val) ELSE pairs[i]]
    ELSE Append(pairs, KV(key, val))

\* the values of a list, as a sequence
Items(v) == [i \in 1..Len(v.kids) |-> v.kids[i].v]

(* ---------------------------------------------------------------------- *)
(* Strings                                                                 *)
(* ---------------------------------------------------------------------- *)
\* s.endswith(p)
EndsWith(s, p) ==
    /\ Len(s) >= Len(p)
    /\ SubSeq(s, Len(s) - Len(p) + 1, Len(s)) = p

\* s.startswith(p)
StartsWith(s, p) ==
    /\ Len(s) >= Len(p)
    /\ SubSeq(s, 1, Len(p)) = p

\* p in s, for strings
Contains(s, p) ==
    \E i \in 1..(Len(s) - Len(p) + 1) : SubSeq(s, i, i + Len(p) - 1) = p

\* s[:-1]
DropLast(s) == SubSeq(s, 1, Len(s) - 1)

RECURSIVE LStrip(_)
LStrip(s) ==
    IF s # <<>> /\ Head(s) \in Whitespace THEN LStrip(Tail(s)) ELSE s

RECURSIVE RStrip(_)
RStrip(s) ==
    IF s # <<>> /\ s[Len(s)] \in Whitespace THEN RStrip(DropLast(s)) ELSE s

\* s.strip()
Strip(s) == RStrip(LStrip(s))

RECURSIVE Concat(_)
Concat(ss) == IF ss = <<>> THEN <<>> ELSE Head(ss) \o Concat(Tail(ss))

(* ---------------------------------------------------------------------- *)
(* json.dumps and json.loads                                               *)
(* ---------------------------------------------------------------------- *)
RECURSIVE Dumps(_)
RECURSIVE DumpItems(_, _)
\* the items of a list or dict, separated by ", "; a dict item is "key": value
DumpItems(kids, keyed) ==
    IF kids = <<>> THEN <<>>
    ELSE (IF keyed THEN <<Quote>> \o Head(kids).k \o <<Quote, Colon, Blank>>
                   ELSE <<>>)
         \o Dumps(Head(kids).v)
         \o (IF Len(kids) > 1 THEN <<Comma, Blank>> ELSE <<>>)
         \o DumpItems(Tail(kids), keyed)

\* json.dumps(v), default separators
Dumps(v) ==
    CASE v.t = "str" -> <<Quote>> \o v.s \o <<Quote>>
      [] v.t = "num" -> v.s
      [] v.t = "bool" -> v.s
      [] v.t = "null" -> <<"null">>
      [] v.t = "list" -> <<LBrack>> \o DumpItems(v.kids, FALSE) \o <<RBrack>>
      [] OTHER -> <<LBrace>> \o DumpItems(v.kids, TRUE) \o <<RBrace>>

\* a parse step: ok, the value read, and the text after it
Parsed(val, rest) == [ok |-> TRUE, val |-> val, rest |-> rest]
ParseFail == [ok |-> FALSE, val |-> JNull, rest |-> <<>>]

\* the characters of a string literal, up to its closing quote
RECURSIVE ScanString(_, _)
ScanString(ts, acc) ==
    IF ts = <<>> THEN ParseFail
    ELSE IF Head(ts) = Quote THEN Parsed(JStr(acc), Tail(ts))
    ELSE IF Head(ts) \in ControlChars THEN ParseFail
    ELSE ScanString(Tail(ts), Append(acc, Head(ts)))

RECURSIVE ParseValue(_)
RECURSIVE ParseMembers(_, _)
RECURSIVE ParseElems(_, _)

\* "key": value, then a comma and more members, or the closing brace
ParseMembers(ts0, acc) ==
    LET ts == LStrip(ts0) IN
    IF ts = <<>> \/ Head(ts) # Quote THEN ParseFail
    ELSE LET key == ScanString(Tail(ts), <<>>) IN
         IF ~key.ok THEN ParseFail
         ELSE LET c == LStrip(key.rest) IN
              IF c = <<>> \/ Head(c) # Colon THEN ParseFail
              ELSE LET val == ParseValue(Tail(c)) IN
                   IF ~val.ok THEN ParseFail
                   ELSE LET r == LStrip(val.rest)
                            acc2 == SetKey(acc, key.val.s, val.val)
                        IN  IF r = <<>> THEN ParseFail
                            ELSE IF Head(r) = RBrace
                                 THEN Parsed(JObj(acc2), Tail(r))
                            ELSE IF Head(r) = Comma
                                 THEN ParseMembers(Tail(r), acc2)
                            ELSE ParseFail

\* value, then a comma and more values, or the closing bracket
ParseElems(ts0, acc) ==
    LET val == ParseValue(ts0) IN
    IF ~val.ok THEN ParseFail
    ELSE LET r == LStrip(val.rest)
             acc2 == Append(acc, val.val)
         IN  IF r = <<>> THEN ParseFail
             ELSE IF Head(r) = RBrack THEN Parsed(JList(acc2), Tail(r))
             ELSE IF Head(r) = Comma THEN ParseElems(Tail(r), acc2)
             ELSE ParseFail

ParseValue(ts0) ==
    LET ts == LStrip(ts0) IN
    IF ts = <<>> THEN ParseFail
    ELSE LET h == Head(ts)
             r == Tail(ts)
             r2 == LStrip(r)
         IN  CASE h = Quote -> ScanString(r, <<>>)
               [] h \in NumLits -> Parsed(JNum(h), r)
               [] h \in BoolLits -> Parsed(JBool(h), r)
               [] h = "null" -> Parsed(JNull, r)
               [] h = LBrace ->
                    IF r2 # <<>> /\ Head(r2) = RBrace
                    THEN Parsed(EmptyObj, Tail(r2))
                    ELSE ParseMembers(r, <<>>)
               [] h = LBrack ->
                    IF r2 # <<>> /\ Head(r2) = RBrack
                    THEN Parsed(EmptyList, Tail(r2))
                    ELSE ParseElems(r, <<>>)
               [] OTHER -> ParseFail

\* json.loads(text): ok is FALSE where json.loads raises JSONDecodeError
JsonLoads(text) ==
    LET p == ParseValue(text) IN
    IF p.ok /\ LStrip(p.rest) = <<>> THEN [ok |-> TRUE, val |-> p.val]
    ELSE [ok |-> FALSE, val |-> JNull]

(* ---------------------------------------------------------------------- *)
(* parse_event, the two variants; None is JNull                            *)
(* ---------------------------------------------------------------------- *)
LoopMetaLit == <<Quote, "loop_meta", Quote>>

\* summarize_session.parse_event, analyze_flow.parse_event
ParseEventNarrow(line) ==
    LET l0 == Strip(line)
        l1 == IF EndsWith(l0, <<RBrace, RBrace>>) /\ Contains(l0, LoopMetaLit)
              THEN DropLast(l0) ELSE l0
        d == JsonLoads(l1)
    IN  IF l0 = <<>> THEN JNull
        ELSE IF d.ok THEN d.val ELSE JNull

RepairBudget == 3

\* a repair loop without a budget: it strips while a brace is left
RECURSIVE RepairLoopUnbounded(_, _)
RepairLoopUnbounded(l, n) ==
    IF ~EndsWith(l, <<RBrace>>) THEN JNull
    ELSE LET d == JsonLoads(DropLast(l)) IN
         IF d.ok THEN d.val ELSE RepairLoopUnbounded(DropLast(l), n)

\* the repair loop, with n iterations left
RECURSIVE RepairLoop(_, _)
RepairLoop(l, n) ==
    IF n = 0 THEN JNull
    ELSE IF EndsWith(l, <<RBrace>>)
         THEN LET d == JsonLoads(DropLast(l)) IN
              IF d.ok THEN d.val ELSE RepairLoop(DropLast(l), n - 1)
         ELSE RepairLoop(l, n - 1)

\* analyze_stuck_points.parse_event, analyze_session.parse_event,
\* analyze_efficiency.parse_event
ParseEventRepair(line) ==
    LET l0 == Strip(line)
        d == JsonLoads(l0)
    IN  IF l0 = <<>> THEN JNull
        ELSE IF d.ok THEN d.val
        ELSE RepairLoop(l0, RepairBudget)

(* ---------------------------------------------------------------------- *)
(* Log records, as the scripts read them                                   *)
(* ---------------------------------------------------------------------- *)
\* a one-word string, and a text of several words
W(word) == JStr(<<word>>)
Key(word) == <<word>>

ToolUse(name, input, id) ==
    JObj(<<KV(Key("type"), W("tool_use")), KV(Key("name"), name),
           KV(Key("input"), input), KV(Key("id"), id)>>)
TextBlock(text) ==
    JObj(<<KV(Key("type"), W("text")), KV(Key("text"), text)>>)
ThinkingBlock(text) ==
    JObj(<<KV(Key("type"), W("thinking")), KV(Key("thinking"), text)>>)
ToolResult(id, content, isError) ==
    JObj(<<KV(Key("type"), W("tool_result")), KV(Key("tool_use_id"), id),
           KV(Key("content"), content), KV(Key("is_error"), isError)>>)
Message(content) == JObj(<<KV(Key("content"), content)>>)
Assistant(blocks) ==
    JObj(<<KV(Key("type"), W("assistant")),
           KV(Key("message"), Message(JList(blocks)))>>)
User(blocks) ==
    JObj(<<KV(Key("type"), W("user")),
           KV(Key("message"), Message(JList(blocks)))>>)
System ==
    JObj(<<KV(Key("type"), W("system")), KV(Key("subtype"), W("init")),
           KV(Key("cwd"), W("/repo")), KV(Key("model"), W("m"))>>)
LoopMeta(kind, data) ==
    JObj(<<KV(Key("type"), W("loop_meta")), KV(Key("event"), W(kind)),
           KV(Key("timestamp"), W("2026-01-01T00:00:00")), KV(Key("data"), data)>>)
StartData ==
    JObj(<<KV(Key("iteration"), JNum("1")), KV(Key("mode"), W("build")),
           KV(Key("issue_id"), W("x"))>>)
EndData ==
    JObj(<<KV(Key("iteration"), JNum("1")), KV(Key("duration_seconds"), JNum("42")),
           KV(Key("exit_code"), JNum("0"))>>)
BashInput(cmd) == JObj(<<KV(Key("command"), JStr(cmd))>>)
FileInput(path) == JObj(<<KV(Key("file_path"), W(path))>>)
Bash(cmd, id) == ToolUse(W("Bash"), BashInput(cmd), W(id))

\* a line of the file: the text and its newline
LineOf(text) == text \o <<Newline>>
EventLine(v) == LineOf(Dumps(v))

VARIABLES
    pc,        \* position of the running script
    lines,     \* the log file, a sequence of lines
    idx,       \* index of the next line, event or tool event to scan
    loop_meta, tool_counts, tool_errors, tool_events, thoughts,
    thinking_blocks, issues_worked, bd_commands,   \* summarize_session
    completed, failures, total_secs,               \* its iteration report
    consecutive_tool, consecutive_count, start_index,
    loops,     \* the runs printed under POTENTIAL LOOPS
    events,    \* the events loaded from the lines
    tool_use_id, start_idx, result,                \* find_tool_result
    sequences, current_seq, escapes, issues, attempts,
    passed, failed,                                \* analyze_stuck_points
    task_timeline, error_recoveries, last_error_idx,
    edits, reads, edits_with_read,                 \* analyze_flow
    category_counts, total,                        \* analyze_efficiency
    value,     \* decoder check: the event that is serialized
    extra,     \* decoder check: closing braces appended to the serialization
    line,      \* decoder check: the line handed to parse_event
    narrow,    \* decoder check: result of the loop_meta variant
    repair     \* decoder check: result of the bounded-repair variant

decVars == <<value, extra, line, narrow, repair>>
collectVars == <<loop_meta, tool_counts, tool_errors, tool_events, thoughts,
                 thinking_blocks, issues_worked, bd_commands>>
reportVars == <<completed, failures, total_secs>>
runVars == <<consecutive_tool, consecutive_count, start_index, loops>>
summVars == <<collectVars, reportVars, runVars>>
findVars == <<tool_use_id, start_idx, result>>
stuckVars == <<sequences, current_seq, escapes, issues, attempts, passed, failed>>
flowVars == <<task_timeline, error_recoveries, last_error_idx, edits, reads,
              edits_with_read>>
effVars == <<category_counts, total>>
otherVars == <<decVars, summVars, findVars, stuckVars, flowVars, effVars>>
vars == <<pc, lines, idx, events, otherVars>>

\* None, and an index, for a variable that holds either
NoIndex == [some |-> FALSE, i |-> 0]
SomeIndex(i) == [some |-> TRUE, i |-> i]

\* the variables of the scripts that are not running
DecodeIdle ==
    /\ value = JNull /\ extra = 0 /\ line = <<>>
    /\ narrow = JNull /\ repair = JNull
SummIdle ==
    /\ loop_meta = <<>> /\ tool_counts = <<>> /\ tool_errors = 0
    /\ tool_events = <<>> /\ thoughts = <<>> /\ thinking_blocks = <<>>
    /\ issues_worked = {} /\ bd_commands = <<>>
    /\ completed = 0 /\ failures = 0 /\ total_secs = 0
    /\ consecutive_tool = JNull /\ consecutive_count = 0 /\ start_index = 0
    /\ loops = <<>>
FindIdle ==
    /\ tool_use_id = JNull /\ start_idx = 0
    /\ result = [found |-> FALSE, raised |-> FALSE, content |-> JNull,
                 is_error |-> JNull]
StuckIdle ==
    /\ sequences = <<>> /\ current_seq = <<>> /\ escapes = <<>>
    /\ issues = <<>> /\ attempts = <<>> /\ passed = 0 /\ failed = 0
FlowIdle ==
    /\ task_timeline = <<>> /\ error_recoveries = <<>>
    /\ last_error_idx = NoIndex /\ edits = <<>> /\ reads = {}
    /\ edits_with_read = 0
EffIdle ==
    /\ category_counts = <<>> /\ total = 0

(* ---------------------------------------------------------------------- *)
(* The decoders on serialized events                                       *)
(* ---------------------------------------------------------------------- *)
MaxExtra == 2

RECURSIVE Braces(_)
Braces(n) == IF n = 0 THEN <<>> ELSE <<RBrace>> \o Braces(n - 1)

DecValues ==
    { LoopMeta("iteration_start", StartData),
      LoopMeta("iteration_end", EndData),
      LoopMeta("iteration_end", EmptyObj),
      LoopMeta("iteration_end", JNull),
      JObj(<<KV(Key("data"), EndData), KV(Key("type"), W("loop_meta"))>>),
      JObj(<<KV(Key("loop_meta"), EmptyObj)>>),
      JObj(<<KV(Key("type"), W("loop_meta"))>>),
      System,
      Assistant(<<TextBlock(JStr(<<"let", Blank, "me", Blank, "fix">>))>>),
      Assistant(<<Bash(<<"cargo", Blank, "test">>, "a"),
                  ToolUse(W("Read"), FileInput("a.py"), W("b"))>>),
      Assistant(<<TextBlock(JStr(<<"loop_meta", RBrace, RBrace>>))>>),
      User(<<ToolResult(W("a"), W("ok"), JFalse)>>),
      User(<<ToolResult(W("a"), JList(<<EmptyObj>>), JTrue)>>),
      EmptyObj, EmptyList, JNull, JTrue, JNum("0"), JNum("42"), W("loop_meta"),
      JList(<<W("loop_meta"), JObj(<<KV(Key("a"), EmptyObj)>>)>>) }

InitDecode ==
    /\ pc = "serialize"
    /\ value \in DecValues
    /\ extra \in 0..MaxExtra
    /\ line = <<>>
    /\ narrow = JNull
    /\ repair = JNull
    /\ lines = <<>>
    /\ idx = 0
    /\ events = <<>>
    /\ SummIdle /\ FindIdle /\ StuckIdle /\ FlowIdle /\ EffIdle

\* json.dumps(event) written as one line, followed by the extra braces
Serialize ==
    /\ pc = "serialize"
    /\ line' = LineOf(Dumps(value) \o Braces(extra))
    /\ pc' = "decode"
    /\ UNCHANGED <<value, extra, narrow, repair, lines, idx, events,
                   summVars, findVars, stuckVars, flowVars, effVars>>

DecodeNarrow ==
    /\ pc = "decode"
    /\ narrow' = ParseEventNarrow(line)
    /\ pc' = "decode_repair"
    /\ UNCHANGED <<value, extra, line, repair, lines, idx, events,
                   summVars, findVars, stuckVars, flowVars, effVars>>

DecodeRepair ==
    /\ pc = "decode_repair"
    /\ repair' = ParseEventRepair(line)
    /\ pc' = "decoded"
    /\ UNCHANGED <<value, extra, line, narrow, lines, idx, events,
                   summVars, findVars, stuckVars, flowVars, effVars>>

NextDecode == Serialize \/ DecodeNarrow \/ DecodeRepair

SpecDecode == InitDecode /\ [][NextDecode]_vars

\* C2: decoding the well-formed serialization of an event with either
\* parse_event variant gives the event back.
C2_DecodeOfSerializedIsIdentity ==
    (pc = "decoded" /\ extra = 0) => (narrow = value /\ repair = value)

(* ---------------------------------------------------------------------- *)
(* summarize_session: the scan of the lines                                *)
(* ---------------------------------------------------------------------- *)
Min(a, b) == IF a < b THEN a ELSE b

\* v[:n] of a str; the model's words count as one character each
Prefix(v, n) == JStr(SubSeq(v.s, 1, Min(n, Len(v.s))))

\* slicing is defined on str (and list), not on the other types
Sliceable(v) == v.t \in {"str", "list"}
\* dict keys and set members must be hashable
Hashable(v) == v.t \notin {"list", "obj"}

\* tool_counts[name] += 1, a defaultdict(int)
CountUp(counts, name) ==
    IF \E i \in 1..Len(counts) : counts[i].k = name
    THEN [i \in 1..Len(counts) |->
              IF counts[i].k = name
              THEN [k |-> name, n |-> counts[i].n + 1] ELSE counts[i]]
    ELSE Append(counts, [k |-> name, n |-> 1])

BdStart == <<"bd", Blank>>
BdInside == <<Blank, "bd", Blank>>

\* the body of "for block in content" of an assistant event, on the
\* accumulators acc; acc.raised is set where the body raises
SummAssistantBlock(block, i, acc) ==
    IF ~IsObj(block) THEN [acc EXCEPT !.raised = TRUE]
    ELSE
    LET block_type == Get(block, Key("type"), JNull)
        thinking == Get(block, Key("thinking"), EmptyStr)
        tool_name == Get(block, Key("name"), JNull)
        tool_input == Get(block, Key("input"), EmptyObj)
        cmd == Get(tool_input, Key("command"), EmptyStr)
        counted == [acc EXCEPT
            !.tool_counts = CountUp(@, tool_name),
            !.tool_events = Append(@, [index |-> i, name |-> tool_name,
                                       id |-> Get(block, Key("id"), JNull),
                                       input |-> tool_input])]
    IN  CASE block_type = W("thinking") ->
                IF ~Sliceable(thinking) THEN [acc EXCEPT !.raised = TRUE]
                ELSE [acc EXCEPT !.thinking_blocks =
                        Append(@, [index |-> i,
                                   text |-> IF IsStr(thinking)
                                            THEN Prefix(thinking, 200)
                                            ELSE thinking])]
          [] block_type = W("text") ->
                [acc EXCEPT !.thoughts =
                    Append(@, [index |-> i,
                               text |-> Get(block, Key("text"), EmptyStr)])]
          [] block_type = W("tool_use") ->
                IF ~Hashable(tool_name) THEN [acc EXCEPT !.raised = TRUE]
                ELSE IF tool_name # W("Bash") THEN counted
                ELSE IF ~IsObj(tool_input) \/ ~IsStr(cmd)
                     THEN [counted EXCEPT !.raised = TRUE]
                ELSE IF StartsWith(cmd.s, BdStart) \/ Contains(cmd.s, BdInside)
                     THEN [counted EXCEPT !.bd_commands = Append(@, cmd)]
                ELSE counted
          [] OTHER -> acc

RECURSIVE SummAssistantBlocks(_, _, _)
SummAssistantBlocks(blocks, i, acc) ==
    IF blocks = <<>> \/ acc.raised THEN acc
    ELSE SummAssistantBlocks(Tail(blocks), i,
                             SummAssistantBlock(Head(blocks), i, acc))

\* the body of "for block in content" of a user event
RECURSIVE SummUserBlocks(_, _)
SummUserBlocks(blocks, acc) ==
    IF blocks = <<>> \/ acc.raised THEN acc
    ELSE IF ~IsObj(Head(blocks)) THEN [acc EXCEPT !.raised = TRUE]
    ELSE SummUserBlocks(Tail(blocks),
            IF /\ Get(Head(blocks), Key("type"), JNull) = W("tool_result")
               /\ Truthy(Get(Head(blocks), Key("is_error"), JFalse))
            THEN [acc EXCEPT !.tool_errors = @ + 1] ELSE acc)

\* message.get('content', []) of event.get('message', {}); the scripts that
\* test isinstance(content, list) skip every other content
GuardedContent(event) ==
    LET message == Get(event, Key("message"), EmptyObj)
        content == Get(message, Key("content"), EmptyList)
    IN  IF ~IsObj(message) THEN [raised |-> TRUE, blocks |-> <<>>]
        ELSE IF IsList(content) THEN [raised |-> FALSE, blocks |-> Items(content)]
        ELSE [raised |-> FALSE, blocks |-> <<>>]

\* the body of "for idx, line in enumerate(lines)" after parse_event, for
\* line number i and the event of the line
SummEvent(event, i, acc) ==
    IF ~Truthy(event) THEN acc
    ELSE IF ~IsObj(event) THEN [acc EXCEPT !.raised = TRUE]
    ELSE
    LET event_type == Get(event, Key("type"), JNull)
        data == Get(event, Key("data"), EmptyObj)
        issue_id == Get(data, Key("issue_id"), JNull)
        c == GuardedContent(event)
    IN  CASE event_type = W("loop_meta") ->
                LET a1 == [acc EXCEPT !.loop_meta = Append(@, event)] IN
                IF Get(event, Key("event"), JNull) # W("iteration_start") THEN a1
                ELSE IF ~IsObj(data) THEN [a1 EXCEPT !.raised = TRUE]
                ELSE IF ~Truthy(issue_id) THEN a1
                ELSE IF ~Hashable(issue_id) THEN [a1 EXCEPT !.raised = TRUE]
                ELSE [a1 EXCEPT !.issues_worked = @ \cup {issue_id}]
          [] event_type = W("system") -> acc
          [] event_type = W("assistant") ->
                IF c.raised THEN [acc EXCEPT !.raised = TRUE]
                ELSE SummAssistantBlocks(c.blocks, i, acc)
          [] event_type = W("user") ->
                IF c.raised THEN [acc EXCEPT !.raised = TRUE]
                ELSE SummUserBlocks(c.blocks, acc)
          [] OTHER -> acc

\* the body of "for idx, line in enumerate(lines)", for line number i
SummLineBody(ln, i, acc) == SummEvent(ParseEventNarrow(ln), i, acc)

SummAcc ==
    [loop_meta |-> loop_meta, tool_counts |-> tool_counts,
     tool_errors |-> tool_errors, tool_events |-> tool_events,
     thoughts |-> thoughts, thinking_blocks |-> thinking_blocks,
     issues_worked |-> issues_worked, bd_commands |-> bd_commands,
     raised |-> FALSE]

\* one iteration of the loop over the lines (summarize_session.py 52-113)
SummLine ==
    /\ pc = "summ_lines"
    /\ idx < Len(lines)
    /\ \E acc \in {SummLineBody(lines[idx + 1], idx, SummAcc)} :
        /\ loop_meta' = acc.loop_meta
        /\ tool_counts' = acc.tool_counts
        /\ tool_errors' = acc.tool_errors
        /\ tool_events' = acc.tool_events
        /\ thoughts' = acc.thoughts
        /\ thinking_blocks' = acc.thinking_blocks
        /\ issues_worked' = acc.issues_worked
        /\ bd_commands' = acc.bd_commands
        /\ pc' = IF acc.raised THEN "raised" ELSE "summ_lines"
        /\ idx' = IF acc.raised THEN idx ELSE idx + 1
    /\ UNCHANGED <<lines, events, decVars, reportVars, runVars,
                   findVars, stuckVars, flowVars, effVars>>

(* ---------------------------------------------------------------------- *)
(* summarize_session: the iteration report                                 *)
(* ---------------------------------------------------------------------- *)
MinusOne == JNum("-1")
IsNumber(v) == v.t \in {"num", "bool"}
NumValue(v) ==
    CASE v.s = <<"1">> \/ v.s = <<"true">> -> 1
      [] v.s = <<"2">> -> 2
      [] v.s = <<"42">> -> 42
      [] v.s = <<"-1">> -> -1
      [] OTHER -> 0

\* [e for e in loop_meta if e.get('event') == kind]
RECURSIVE MetaOfKind(_, _)
MetaOfKind(metas, kind) ==
    IF metas = <<>> THEN <<>>
    ELSE (IF Get(Head(metas), Key("event"), JNull) = W(kind)
          THEN <<Head(metas)>> ELSE <<>>) \o MetaOfKind(Tail(metas), kind)

\* sum(e.get('data', {}).get('duration_seconds', 0) for e in ends)
RECURSIVE SumDurations(_)
SumDurations(ends) ==
    IF ends = <<>> THEN [raised |-> FALSE, n |-> 0]
    ELSE LET data == Get(Head(ends), Key("data"), EmptyObj)
             d == Get(data, Key("duration_seconds"), JNum("0"))
             rest == SumDurations(Tail(ends))
         IN  IF ~IsObj(data) \/ ~IsNumber(d) \/ rest.raised
             THEN [raised |-> TRUE, n |-> 0]
             ELSE [raised |-> FALSE, n |-> NumValue(d) + rest.n]

\* c != 0 for an exit code c
NonZero(c) == ~(IsNumber(c) /\ NumValue(c) = 0)

\* sum(1 for c in exit_codes if c != 0)
RECURSIVE CountFailures(_)
CountFailures(ends) ==
    IF ends = <<>> THEN 0
    ELSE (IF NonZero(Get(Get(Head(ends), Key("data"), EmptyObj),
                         Key("exit_code"), MinusOne))
          THEN 1 ELSE 0) + CountFailures(Tail(ends))

\* the report of iterations and tools (summarize_session.py 115-149)
SummReport ==
    /\ pc = "summ_lines"
    /\ idx = Len(lines)
    /\ LET ends == MetaOfKind(loop_meta, "iteration_end")
           secs == SumDurations(ends)
           raises == \/ secs.raised
                     \/ \E i \in issues_worked : ~IsStr(i)
       IN  /\ completed' = Len(ends)
           /\ total_secs' = secs.n
           /\ failures' = IF secs.raised THEN 0 ELSE CountFailures(ends)
           /\ pc' = IF raises THEN "raised" ELSE "summ_runs"
    /\ idx' = 0
    /\ UNCHANGED <<lines, events, decVars, collectVars, runVars,
                   findVars, stuckVars, flowVars, effVars>>

(* ---------------------------------------------------------------------- *)
(* summarize_session: runs of one tool                                     *)
(* ---------------------------------------------------------------------- *)
LoopThreshold == 5

\* the run (tool, count, start) as a printed finding
Finding(run) ==
    [tool |-> run.tool, count |-> run.count, start |-> run.start]

\* the body of "for i, event in enumerate(tool_events)"
RunStep(run, event) ==
    IF event.name = run.tool
    THEN [run EXCEPT !.count = @ + 1]
    ELSE [tool |-> event.name, count |-> 1, start |-> event.index,
          found |-> IF run.count >= LoopThreshold
                    THEN Append(run.found, Finding(run)) ELSE run.found]

\* the check after the loop
RunFlush(run) ==
    IF run.count >= LoopThreshold
    THEN Append(run.found, Finding(run)) ELSE run.found

CurrentRun ==
    [tool |-> consecutive_tool, count |-> consecutive_count,
     start |-> start_index, found |-> loops]

\* one iteration of the loop over tool_events (summarize_session.py 158-168)
SummRun ==
    /\ pc = "summ_runs"
    /\ idx < Len(tool_events)
    /\ LET run == RunStep(CurrentRun, tool_events[idx + 1]) IN
        /\ consecutive_tool' = run.tool
        /\ consecutive_count' = run.count
        /\ start_index' = run.start
        /\ loops' = run.found
    /\ idx' = idx + 1
    /\ UNCHANGED <<pc, lines, events, decVars, collectVars, reportVars,
                   findVars, stuckVars, flowVars, effVars>>

\* t['text'][:100].replace(...) of the first and the last three thoughts
NarrativeRaises ==
    \E i \in 1..Len(thoughts) :
        /\ i <= 3 \/ i > Len(thoughts) - 3
        /\ ~IsStr(thoughts[i].text)

\* the end of the run detection and the narrative (summarize_session.py 170-187)
SummFlush ==
    /\ pc = "summ_runs"
    /\ idx = Len(tool_events)
    /\ loops' = RunFlush(CurrentRun)
    /\ pc' = IF NarrativeRaises THEN "raised" ELSE "summ_done"
    /\ UNCHANGED <<lines, idx, events, decVars, collectVars, reportVars,
                   consecutive_tool, consecutive_count, start_index,
                   findVars, stuckVars, flowVars, effVars>>

NextSummarize == SummLine \/ SummReport \/ SummRun \/ SummFlush

(* ---------------------------------------------------------------------- *)
(* Log files for summarize_session                                         *)
(* ---------------------------------------------------------------------- *)
MaxRun == 5
PerLine == {1, 2}
LeadKinds == {"nothing", "blank", "garbage"}

BlankLine == <<Blank, Newline>>
\* a line cut short, which no repair decodes
GarbageLine == LineOf(<<LBrace, Quote, "type", Quote, Colon>>)
TextLine == EventLine(Assistant(<<TextBlock(JStr(<<"reading", Blank, "files">>))>>))
MetaLine == EventLine(LoopMeta("iteration_start", StartData))

\* a tool_use block of the tool; "none" is a block that lacks its name
ToolNames == {"Bash", "Read", "none"}
ToolBlock(name, id) ==
    IF name = "none"
    THEN JObj(<<KV(Key("type"), W("tool_use")), KV(Key("input"), EmptyObj),
                KV(Key("id"), W(id))>>)
    ELSE IF name = "Bash" THEN Bash(<<"ls">>, id)
    ELSE ToolUse(W(name), FileInput("a.py"), W(id))

\* n invocations of one tool, per of them in each assistant line
RECURSIVE RunLines(_, _, _)
RunLines(name, n, per) ==
    IF n = 0 THEN <<>>
    ELSE LET k == Min(n, per) IN
         <<EventLine(Assistant([i \in 1..k |-> ToolBlock(name, "t")]))>>
         \o RunLines(name, n - k, per)

RECURSIVE Repeat(_, _)
Repeat(ln, n) == IF n = 0 THEN <<>> ELSE <<ln>> \o Repeat(ln, n - 1)

MidKinds == {"blank", "text", "meta"}
OtherLine(kind) ==
    CASE kind = "nothing" -> <<>>
      [] kind = "blank" -> <<BlankLine>>
      [] kind = "garbage" -> <<GarbageLine>>
      [] kind = "text" -> <<TextLine>>
      [] OTHER -> <<MetaLine>>

\* a leading line, a run of one tool, a separating line, a run of a second tool
SummFiles ==
    { OtherLine(lead) \o RunLines(n1, c1, per) \o OtherLine(mid)
        \o RunLines(n2, c2, 1) :
        lead \in LeadKinds, n1 \in ToolNames, c1 \in 0..MaxRun, per \in PerLine,
        mid \in MidKinds, n2 \in {"Bash", "Read"}, c2 \in 0..MaxRun }

InitSummarize ==
    /\ pc = "summ_lines"
    /\ lines \in SummFiles
    /\ idx = 0
    /\ events = <<>>
    /\ DecodeIdle /\ SummIdle /\ FindIdle /\ StuckIdle /\ FlowIdle /\ EffIdle

SpecSummarize == InitSummarize /\ [][NextSummarize]_vars

(* ---------------------------------------------------------------------- *)
(* Claims on summarize_session                                             *)
(* ---------------------------------------------------------------------- *)
\* the lines summarize_session does not drop, by 0-based line number
SummKept == {j \in 0..(Len(lines) - 1) : Truthy(ParseEventNarrow(lines[j + 1]))}
\* the 0-based position of line j among the lines that are not dropped
SummPosition(j) == Cardinality({k \in SummKept : k < j})

\* the tool_use blocks of the event of a line
RECURSIVE CountToolUse(_)
CountToolUse(blocks) ==
    IF blocks = <<>> THEN 0
    ELSE (IF Get(Head(blocks), Key("type"), JNull) = W("tool_use") THEN 1 ELSE 0)
         + CountToolUse(Tail(blocks))
ToolUsesOfLine(j) ==
    LET event == ParseEventNarrow(lines[j + 1]) IN
    IF Truthy(event) /\ Get(event, Key("type"), JNull) = W("assistant")
    THEN CountToolUse(GuardedContent(event).blocks) ELSE 0

\* the positions of the events of the tool invocations, in file order
RECURSIVE ToolPositionsFrom(_)
ToolPositionsFrom(j) ==
    IF j >= Len(lines) THEN <<>>
    ELSE [i \in 1..ToolUsesOfLine(j) |-> SummPosition(j)]
         \o ToolPositionsFrom(j + 1)

\* C1: the index attached to each tool event is the 0-based position of its
\* event among the lines that are not dropped.
C1_IndexIsPositionAmongKeptLines ==
    pc = "summ_done" =>
        [i \in 1..Len(tool_events) |-> tool_events[i].index] = ToolPositionsFrom(0)

\* the last invocation of the maximal run that starts at invocation a
RECURSIVE RunEnd(_)
RunEnd(a) ==
    IF a < Len(tool_events) /\ tool_events[a + 1].name = tool_events[a].name
    THEN RunEnd(a + 1) ELSE a

\* one finding for every maximal run of at least LoopThreshold invocations
RECURSIVE LongRunsFrom(_)
LongRunsFrom(a) ==
    IF a > Len(tool_events) THEN <<>>
    ELSE LET b == RunEnd(a) IN
         (IF b - a + 1 >= LoopThreshold
          THEN <<[tool |-> tool_events[a].name, count |-> b - a + 1,
                  start |-> tool_events[a].index]>>
          ELSE <<>>) \o LongRunsFrom(b + 1)

\* C5: the findings are exactly the maximal runs of one tool name of length
\* at least 5, each with its length and the index of its first invocation.
C5_OneFindingPerLongRun ==
    pc = "summ_done" => loops = LongRunsFrom(1)

(* ---------------------------------------------------------------------- *)
(* analyze_stuck_points: tool invocations and their results                *)
(* ---------------------------------------------------------------------- *)
\* find_tool_uses(event): the tools, or raised where the function raises
RECURSIVE ToolUseBlocks(_)
ToolUseBlocks(blocks) ==
    IF blocks = <<>> THEN [raised |-> FALSE, tools |-> <<>>]
    ELSE IF ~IsObj(Head(blocks)) THEN [raised |-> TRUE, tools |-> <<>>]
    ELSE LET rest == ToolUseBlocks(Tail(blocks))
             block == Head(blocks)
         IN  IF rest.raised THEN rest
             ELSE IF Get(block, Key("type"), JNull) = W("tool_use")
             THEN [rest EXCEPT !.tools =
                     <<[name |-> Get(block, Key("name"), JNull),
                        input |-> Get(block, Key("input"), EmptyObj),
                        id |-> Get(block, Key("id"), JNull)]>> \o @]
             ELSE rest

find_tool_uses(event) ==
    IF ~IsObj(event) THEN [raised |-> TRUE, tools |-> <<>>]
    ELSE IF Get(event, Key("type"), JNull) # W("assistant")
         THEN [raised |-> FALSE, tools |-> <<>>]
    ELSE LET c == GuardedContent(event) IN
         IF c.raised THEN [raised |-> TRUE, tools |-> <<>>]
         ELSE ToolUseBlocks(c.blocks)

Horizon == 10

NoResult == [found |-> FALSE, raised |-> FALSE, content |-> JNull, is_error |-> JNull]
ResultRaised == [NoResult EXCEPT !.raised = TRUE]

\* the first tool_result block of the id among the blocks of one event
RECURSIVE ResultInBlocks(_, _)
ResultInBlocks(blocks, tid) ==
    IF blocks = <<>> THEN NoResult
    ELSE IF ~IsObj(Head(blocks)) THEN ResultRaised
    ELSE IF /\ Get(Head(blocks), Key("type"), JNull) = W("tool_result")
            /\ Get(Head(blocks), Key("tool_use_id"), JNull) = tid
         THEN [found |-> TRUE, raised |-> FALSE,
               content |-> Get(Head(blocks), Key("content"), EmptyStr),
               is_error |-> Get(Head(blocks), Key("is_error"), JFalse)]
    ELSE ResultInBlocks(Tail(blocks), tid)

\* the loop "for i in range(start, stop)" from i on; i is 0-based
RECURSIVE ResultScan(_, _, _, _)
ResultScan(evs, tid, i, stop) ==
    IF i >= stop THEN NoResult
    ELSE LET event == evs[i + 1]
             c == GuardedContent(event)
             r == ResultInBlocks(c.blocks, tid)
         IN  IF ~IsObj(event) THEN ResultRaised
             ELSE IF Get(event, Key("type"), JNull) # W("user")
                  THEN ResultScan(evs, tid, i + 1, stop)
             ELSE IF c.raised THEN ResultRaised
             ELSE IF r.found \/ r.raised THEN r
             ELSE ResultScan(evs, tid, i + 1, stop)

\* a scan that reads one event too many
find_tool_result_wide(evs, tid, start) ==
    ResultScan(evs, tid, start, Min(start + Horizon + 1, Len(evs)))

find_tool_result(evs, tid, start) ==
    ResultScan(evs, tid, start, Min(start + Horizon, Len(evs)))

(* ---------------------------------------------------------------------- *)
(* find_tool_result on event lists                                         *)
(* ---------------------------------------------------------------------- *)
MaxEvents == 12
MaxStart == 2

FillerEvents ==
    { System,
      Assistant(<<TextBlock(W("thinking"))>>),
      User(<<ToolResult(W("b"), W("other"), JTrue)>>) }

\* events that hold a tool_result block of the id "a"; the last one is an
\* assistant event, whose blocks find_tool_result does not read
MarkedEvents ==
    { User(<<ToolResult(W("a"), W("ok"), JFalse)>>),
      User(<<ToolResult(W("b"), W("other"), JFalse),
             ToolResult(W("a"), W("late"), JTrue)>>),
      User(<<ToolResult(W("a"), JList(<<W("first")>>), JTrue),
             ToolResult(W("a"), W("second"), JFalse)>>),
      User(<<JObj(<<KV(Key("type"), W("tool_result")),
                    KV(Key("tool_use_id"), W("a"))>>)>>),
      Assistant(<<ToolResult(W("a"), W("wrong"), JFalse)>>) }

\* n events, all the filler but for the marked events m1 at j1 and m2 at j2
FindEvents ==
    { [j \in 1..n |-> IF j = j1 THEN m1 ELSE IF j = j2 THEN m2 ELSE f] :
        n \in 0..MaxEvents, f \in {System}, j1 \in 0..MaxEvents,
        j2 \in 0..MaxEvents, m1 \in MarkedEvents, m2 \in MarkedEvents }
    \cup { [j \in 1..n |-> f] : n \in 0..MaxEvents, f \in FillerEvents }

InitFind ==
    /\ pc = "find"
    /\ events \in FindEvents
    /\ tool_use_id = W("a")
    /\ start_idx \in 0..MaxStart
    /\ result = NoResult
    /\ lines = <<>>
    /\ idx = 0
    /\ DecodeIdle /\ SummIdle /\ StuckIdle /\ FlowIdle /\ EffIdle

\* result = find_tool_result(events, tool_use_id, start_idx)
FindResult ==
    /\ pc = "find"
    /\ result' = find_tool_result(events, tool_use_id, start_idx)
    /\ pc' = IF result'.raised THEN "raised" ELSE "find_done"
    /\ UNCHANGED <<lines, idx, events, tool_use_id, start_idx,
                   decVars, summVars, stuckVars, flowVars, effVars>>

NextFind == FindResult

SpecFind == InitFind /\ [][NextFind]_vars

\* block b of the event at 0-based index j is a tool_result of the id
IsMatch(j, b) ==
    /\ events[j + 1].t = "obj"
    /\ Get(events[j + 1], Key("type"), JNull) = W("user")
    /\ b \in 1..Len(GuardedContent(events[j + 1]).blocks)
    /\ LET block == GuardedContent(events[j + 1]).blocks[b] IN
        /\ Get(block, Key("type"), JNull) = W("tool_result")
        /\ Get(block, Key("tool_use_id"), JNull) = tool_use_id

\* the matches within the window [start_idx, start_idx + 10) of the transcript
WindowMatches ==
    UNION { { <<j, b>> : b \in { c \in 1..Len(GuardedContent(events[j + 1]).blocks) :
                                 IsMatch(j, c) } } :
            j \in { i \in 0..(Len(events) - 1) :
                        start_idx <= i /\ i < start_idx + 10 } }
\* the first match, by event index and then by block order
FirstMatch ==
    CHOOSE m \in WindowMatches :
        \A o \in WindowMatches :
            m[1] < o[1] \/ (m[1] = o[1] /\ m[2] <= o[2])

\* C3: find_tool_result returns a result exactly when a user event in
\* [s, min(s+10, len)) holds a tool_result block of the id, and then the
\* content and is_error of the first such block.
C3_FirstMatchWithinHorizon ==
    pc = "find_done" =>
        /\ result.found <=> WindowMatches # {}
        /\ result.found =>
             LET block == GuardedContent(events[FirstMatch[1] + 1]).blocks[FirstMatch[2]]
             IN  /\ result.content = Get(block, Key("content"), EmptyStr)
                 /\ result.is_error = Get(block, Key("is_error"), JFalse)

\* a match at s+9 is returned although a different match follows at s+10
C3_WitnessMatchAtLastIndex ==
    /\ pc = "find_done"
    /\ result.found
    /\ FirstMatch[1] = start_idx + 9
    /\ Len(events) > start_idx + 10
    /\ \E b \in 1..2 : IsMatch(start_idx + 10, b)

(* ---------------------------------------------------------------------- *)
(* analyze_stuck_points: loading and the detectors                         *)
(* ---------------------------------------------------------------------- *)
\* one iteration of "for line in f" of extract_events, and of the same loop
\* of analyze_efficiency, with the bounded-repair parse_event
LoadRepair(here) ==
    /\ pc = here
    /\ idx < Len(lines)
    /\ LET event == ParseEventRepair(lines[idx + 1]) IN
        events' = IF Truthy(event) THEN Append(events, event) ELSE events
    /\ idx' = idx + 1
    /\ UNCHANGED <<pc, lines, otherVars>>

\* the end of a loop over the lines or the events: on to the next part
Goto(here, n, there) ==
    /\ pc = here
    /\ idx = n
    /\ pc' = there
    /\ idx' = 0

StuckLoad == LoadRepair("stuck_load")
StuckLoaded ==
    /\ Goto("stuck_load", Len(lines), "stuck_bash")
    /\ UNCHANGED <<lines, events, otherVars>>

\* [t for t in tools if t['name'] == name]
RECURSIVE ToolsNamed(_, _)
ToolsNamed(tools, name) ==
    IF tools = <<>> THEN <<>>
    ELSE (IF Head(tools).name = W(name) THEN <<Head(tools)>> ELSE <<>>)
         \o ToolsNamed(Tail(tools), name)

BashThreshold == 5

\* the loop "for tool in bash_tools" of analyze_bash_sequences, at event i
RECURSIVE BashEntries(_, _, _)
BashEntries(bash_tools, i, seq) ==
    IF bash_tools = <<>> \/ seq.raised THEN seq
    ELSE LET tool == Head(bash_tools)
             res == find_tool_result(events, tool.id, i)
         IN  IF res.raised \/ ~IsObj(tool.input)
             THEN [seq EXCEPT !.raised = TRUE]
             ELSE BashEntries(Tail(bash_tools), i,
                    [seq EXCEPT !.current = Append(@,
                        [index |-> i,
                         command |-> Get(tool.input, Key("command"), EmptyStr),
                         result |-> res])])

\* a scan that keeps a short sequence when an event without Bash ends it
BashStepKeepsShort(seq, i) ==
    LET uses == find_tool_uses(events[i + 1])
        bash_tools == ToolsNamed(uses.tools, "Bash")
    IN  IF uses.raised THEN [seq EXCEPT !.raised = TRUE]
        ELSE IF bash_tools # <<>> THEN BashEntries(bash_tools, i, seq)
        ELSE IF Len(seq.current) >= BashThreshold
             THEN [seq EXCEPT !.found = Append(@, seq.current), !.current = <<>>]
        ELSE seq

\* the body of "for i, event in enumerate(events)" of analyze_bash_sequences
BashStep(seq, i) ==
    LET uses == find_tool_uses(events[i + 1])
        bash_tools == ToolsNamed(uses.tools, "Bash")
    IN  IF uses.raised THEN [seq EXCEPT !.raised = TRUE]
        ELSE IF bash_tools # <<>> THEN BashEntries(bash_tools, i, seq)
        ELSE [seq EXCEPT
                !.found = IF Len(seq.current) >= BashThreshold
                          THEN Append(@, seq.current) ELSE @,
                !.current = <<>>]

\* the check after the loop
BashFlush(seq) ==
    IF Len(seq.current) >= BashThreshold
    THEN Append(seq.found, seq.current) ELSE seq.found

CurrentSeq == [found |-> sequences, current |-> current_seq, raised |-> FALSE]

\* one iteration of the loop of analyze_bash_sequences (89-104)
StuckBash ==
    /\ pc = "stuck_bash"
    /\ idx < Len(events)
    /\ LET seq == BashStep(CurrentSeq, idx) IN
        /\ sequences' = seq.found
        /\ current_seq' = seq.current
        /\ pc' = IF seq.raised THEN "raised" ELSE pc
    /\ idx' = idx + 1
    /\ UNCHANGED <<lines, events, escapes, issues, attempts, passed, failed,
                   decVars, summVars, findVars, flowVars, effVars>>

\* the end of analyze_bash_sequences (106-109)
StuckBashEnd ==
    /\ Goto("stuck_bash", Len(events), "stuck_escapes")
    /\ sequences' = BashFlush(CurrentSeq)
    /\ UNCHANGED <<lines, events, current_seq, escapes, issues, attempts,
                   passed, failed,
                   decVars, summVars, findVars, flowVars, effVars>>

\* the body of the loop of analyze_workflow_escapes
RECURSIVE EscapeEntries(_, _)
EscapeEntries(tools, i) ==
    IF tools = <<>> THEN <<>>
    ELSE (IF Head(tools).name = W("TodoWrite")
          THEN <<[index |-> i, type |-> "TodoWrite", input |-> Head(tools).input]>>
          ELSE <<>>) \o EscapeEntries(Tail(tools), i)

\* one iteration of the loop of analyze_workflow_escapes (116-124)
StuckEscape ==
    /\ pc = "stuck_escapes"
    /\ idx < Len(events)
    /\ LET uses == find_tool_uses(events[idx + 1]) IN
        /\ escapes' = escapes \o EscapeEntries(uses.tools, idx)
        /\ pc' = IF uses.raised THEN "raised" ELSE pc
    /\ idx' = idx + 1
    /\ UNCHANGED <<lines, events, sequences, current_seq, issues, attempts,
                   passed, failed,
                   decVars, summVars, findVars, flowVars, effVars>>

StuckEscapesEnd ==
    /\ Goto("stuck_escapes", Len(events), "stuck_env")
    /\ UNCHANGED <<lines, events, otherVars>>

(* ---------------------------------------------------------------------- *)
(* analyze_stuck_points: environment issues and test attempts              *)
(* ---------------------------------------------------------------------- *)
\* "p in v" for a str p: a substring of a str, an item of a list, a key of
\* a dict
PyIn(p, v) ==
    CASE v.t = "str" -> Contains(v.s, p)
      [] v.t = "list" -> \E i \in 1..Len(v.kids) : v.kids[i].v = JStr(p)
      [] OTHER -> \E i \in 1..Len(v.kids) : v.kids[i].k = p

\* "p in v" is defined for str, list and dict, and raises for the rest
Searchable(v) == v.t \in {"str", "list", "obj"}

\* any(p in v for p in patterns)
ContainsAny(v, patterns) == \E p \in patterns : PyIn(p, v)

\* v[:n]: a str or a list no longer than n is unchanged
Cut(v, n) == IF IsStr(v) THEN Prefix(v, n) ELSE v

\* str.lower(), on the words of the model that have capitals
LowerChar(c) ==
    CASE c = "Error" -> "error"
      [] c = "Let" -> "let"
      [] c = "Try" -> "try"
      [] c = "Permission" -> "permission"
      [] c = "Missing" -> "missing"
      [] OTHER -> c
Lower(s) == [i \in 1..Len(s) |-> LowerChar(s[i])]

error_patterns ==
    { <<"command", Blank, "not", Blank, "found">>,
      <<"no", Blank, "module", Blank, "named">>,
      <<"not", Blank, "found">>,
      <<"permission", Blank, "denied">>,
      <<"cannot", Blank, "find">>,
      <<"missing">>,
      <<"failed", Blank, "to">>,
      <<"error", Colon>> }

test_patterns ==
    { <<"cargo", Blank, "test">>, <<"cargo", Blank, "build">>,
      <<"npm", Blank, "test">>, <<"pytest">>, <<"jest">>,
      <<"go", Blank, "test">> }

\* the loop "for tool in tools" of find_environment_issues, at event i
RECURSIVE EnvEntries(_, _, _)
EnvEntries(tools, i, acc) ==
    IF tools = <<>> \/ acc.raised THEN acc
    ELSE
    LET tool == Head(tools)
        cmd == Get(tool.input, Key("command"), EmptyStr)
        res == find_tool_result(events, tool.id, i)
        issue(kind) == [index |-> i, command |-> Cut(cmd, 80), type |-> kind,
                        detail |-> Cut(res.content, 200)]
        next ==
            IF tool.name # W("Bash") THEN acc
            ELSE IF ~IsObj(tool.input) \/ res.raised THEN [acc EXCEPT !.raised = TRUE]
            ELSE IF ~res.found THEN acc
            ELSE IF ~IsStr(res.content) THEN acc
            ELSE IF Truthy(res.is_error)
                 THEN IF ~Sliceable(cmd) THEN [acc EXCEPT !.raised = TRUE]
                      ELSE [acc EXCEPT !.found = Append(@, issue("error"))]
            ELSE IF ContainsAny(JStr(Lower(res.content.s)), error_patterns)
                 THEN IF ~Sliceable(cmd) THEN [acc EXCEPT !.raised = TRUE]
                      ELSE [acc EXCEPT !.found = Append(@, issue("warning"))]
            ELSE acc
    IN  EnvEntries(Tail(tools), i, next)

\* one iteration of the loop of find_environment_issues (143-172)
StuckEnv ==
    /\ pc = "stuck_env"
    /\ idx < Len(events)
    /\ LET uses == find_tool_uses(events[idx + 1])
           acc == EnvEntries(uses.tools, idx, [found |-> issues, raised |-> uses.raised])
       IN  /\ issues' = acc.found
           /\ pc' = IF acc.raised THEN "raised" ELSE pc
    /\ idx' = idx + 1
    /\ UNCHANGED <<lines, events, sequences, current_seq, escapes, attempts,
                   passed, failed,
                   decVars, summVars, findVars, flowVars, effVars>>

StuckEnvEnd ==
    /\ Goto("stuck_env", Len(events), "stuck_tests")
    /\ UNCHANGED <<lines, events, otherVars>>

\* the loop of analyze_test_attempts without the test of the command at
\* line 187: an attempt for every Bash invocation
RECURSIVE TestEntriesEveryBash(_, _, _)
TestEntriesEveryBash(tools, i, acc) ==
    IF tools = <<>> THEN acc
    ELSE
    LET tool == Head(tools)
        cmd == Get(tool.input, Key("command"), EmptyStr)
        res == find_tool_result(events, tool.id, i)
        attempt == [index |-> i, command |-> Cut(cmd, 100),
                    is_error |-> IF res.found THEN res.is_error ELSE JFalse,
                    output_preview |-> IF res.found /\ IsStr(res.content)
                                       THEN Cut(res.content, 500)
                                       ELSE EmptyStr]
    IN  TestEntriesEveryBash(Tail(tools), i,
            IF tool.name # W("Bash") THEN acc
            ELSE [acc EXCEPT !.found = Append(@, attempt)])

\* the loop "for tool in tools" of analyze_test_attempts, at event i
RECURSIVE TestEntries(_, _, _)
TestEntries(tools, i, acc) ==
    IF tools = <<>> \/ acc.raised THEN acc
    ELSE
    LET tool == Head(tools)
        cmd == Get(tool.input, Key("command"), EmptyStr)
        res == find_tool_result(events, tool.id, i)
        attempt == [index |-> i, command |-> Cut(cmd, 100),
                    is_error |-> IF res.found THEN res.is_error ELSE JFalse,
                    output_preview |-> IF res.found /\ IsStr(res.content)
                                       THEN Cut(res.content, 500)
                                       ELSE EmptyStr]
        next ==
            IF tool.name # W("Bash") THEN acc
            ELSE IF ~IsObj(tool.input) \/ ~Searchable(cmd)
                 THEN [acc EXCEPT !.raised = TRUE]
            ELSE IF ~ContainsAny(cmd, test_patterns) THEN acc
            ELSE IF res.raised \/ ~Sliceable(cmd) THEN [acc EXCEPT !.raised = TRUE]
            ELSE [acc EXCEPT !.found = Append(@, attempt)]
    IN  TestEntries(Tail(tools), i, next)

\* one iteration of the loop of analyze_test_attempts (182-201)
StuckTest ==
    /\ pc = "stuck_tests"
    /\ idx < Len(events)
    /\ LET uses == find_tool_uses(events[idx + 1])
           acc == TestEntries(uses.tools, idx,
                              [found |-> attempts, raised |-> uses.raised])
       IN  /\ attempts' = acc.found
           /\ pc' = IF acc.raised THEN "raised" ELSE pc
    /\ idx' = idx + 1
    /\ UNCHANGED <<lines, events, sequences, current_seq, escapes, issues,
                   passed, failed,
                   decVars, summVars, findVars, flowVars, effVars>>

\* sum(1 for a in attempts if a['is_error']), and the sum of the others
CountErrors(as, want) ==
    Cardinality({i \in 1..Len(as) : Truthy(as[i].is_error) = want})

\* the counts that main prints (270-274)
StuckTestsEnd ==
    /\ Goto("stuck_tests", Len(events), "stuck_done")
    /\ passed' = CountErrors(attempts, FALSE)
    /\ failed' = CountErrors(attempts, TRUE)
    /\ UNCHANGED <<lines, events, sequences, current_seq, escapes, issues,
                   attempts,
                   decVars, summVars, findVars, flowVars, effVars>>

NextStuck ==
    \/ StuckLoad \/ StuckLoaded
    \/ StuckBash \/ StuckBashEnd
    \/ StuckEscape \/ StuckEscapesEnd
    \/ StuckEnv \/ StuckEnvEnd
    \/ StuckTest \/ StuckTestsEnd

(* ---------------------------------------------------------------------- *)
(* Log files for analyze_stuck_points                                      *)
(* ---------------------------------------------------------------------- *)
PerEvent == {1, 2, 5}
StuckMidKinds == {"text", "read", "ok_result", "err_result"}

ReadLine == EventLine(Assistant(<<ToolUse(W("Read"), FileInput("a.py"), W("r"))>>))
OkResultLine == EventLine(User(<<ToolResult(W("t"), W("ok"), JFalse)>>))
ErrResultLine ==
    EventLine(User(<<ToolResult(W("t"), JStr(<<"Error", Colon, Blank, "missing">>),
                                JTrue)>>))

StuckOtherLine(kind) ==
    CASE kind = "nothing" -> <<>>
      [] kind = "text" -> <<TextLine>>
      [] kind = "read" -> <<ReadLine>>
      [] kind = "ok_result" -> <<OkResultLine>>
      [] OTHER -> <<ErrResultLine>>

\* n assistant lines, each with per Bash invocations
BashLines(n, per) ==
    Repeat(EventLine(Assistant([i \in 1..per |-> Bash(<<"ls">>, "t")])), n)

\* a leading line, a run of events with Bash invocations, a line without
\* one, and a second run
StuckFiles ==
    { StuckOtherLine(lead) \o BashLines(c1, per) \o StuckOtherLine(mid)
        \o BashLines(c2, 1) :
        lead \in {"nothing", "text"}, c1 \in 0..MaxRun, per \in PerEvent,
        mid \in StuckMidKinds, c2 \in 0..MaxRun }

InitStuck ==
    /\ pc = "stuck_load"
    /\ lines \in StuckFiles
    /\ idx = 0
    /\ events = <<>>
    /\ DecodeIdle /\ SummIdle /\ FindIdle /\ StuckIdle /\ FlowIdle /\ EffIdle

SpecStuck == InitStuck /\ [][NextStuck]_vars

(* ---------------------------------------------------------------------- *)
(* Claims on analyze_bash_sequences                                        *)
(* ---------------------------------------------------------------------- *)
BashScanned == pc \in {"stuck_escapes", "stuck_env", "stuck_tests", "stuck_done"}

\* the Bash invocations of the event at 0-based index j
BashCount(j) == Len(ToolsNamed(find_tool_uses(events[j + 1]).tools, "Bash"))

\* the event indices of the entries of a recorded sequence
EventsOf(seq) == {seq[e].index : e \in 1..Len(seq)}

\* C10, as claimed: every recorded sequence comes from at least 5 consecutive
\* events that each hold a Bash invocation.
C10_FiveEventsPerSequence ==
    BashScanned =>
        \A k \in 1..Len(sequences) : Cardinality(EventsOf(sequences[k])) >= 5

\* the last event of the maximal run of events with a Bash invocation that
\* starts at event a
RECURSIVE BashRunEnd(_)
BashRunEnd(a) ==
    IF a + 1 < Len(events) /\ BashCount(a + 1) > 0 THEN BashRunEnd(a + 1) ELSE a

\* the event index of every Bash invocation of the events a..b, in order
RECURSIVE EntryIndices(_, _)
EntryIndices(a, b) ==
    IF a > b THEN <<>>
    ELSE [i \in 1..BashCount(a) |-> a] \o EntryIndices(a + 1, b)

\* the maximal runs that hold at least 5 Bash invocations
RECURSIVE LongBashRunsFrom(_)
LongBashRunsFrom(a) ==
    IF a >= Len(events) THEN <<>>
    ELSE IF BashCount(a) = 0 THEN LongBashRunsFrom(a + 1)
    ELSE LET b == BashRunEnd(a) IN
         (IF Len(EntryIndices(a, b)) >= 5 THEN <<EntryIndices(a, b)>> ELSE <<>>)
         \o LongBashRunsFrom(b + 1)

\* C10, amended: the recorded sequences are the maximal runs of consecutive
\* events with a Bash invocation each that hold at least 5 Bash invocations
\* in all, one entry for every invocation; an event without a Bash
\* invocation ends the run.
C10_FiveInvocationsPerSequence ==
    BashScanned =>
        [k \in 1..Len(sequences) |->
            [e \in 1..Len(sequences[k]) |-> sequences[k][e].index]]
        = LongBashRunsFrom(0)

\* a sequence is recorded from a single event that holds 5 Bash invocations
C10_WitnessOneEventRecorded ==
    /\ BashScanned
    /\ \E k \in 1..Len(sequences) :
        /\ Cardinality(EventsOf(sequences[k])) = 1
        /\ Len(sequences[k]) = 5

(* ---------------------------------------------------------------------- *)
(* analyze_flow                                                            *)
(* ---------------------------------------------------------------------- *)
\* one iteration of "for line in f" of analyze_flow, with its parse_event
FlowLoad ==
    /\ pc = "flow_load"
    /\ idx < Len(lines)
    /\ LET event == ParseEventNarrow(lines[idx + 1]) IN
        events' = IF Truthy(event) THEN Append(events, event) ELSE events
    /\ idx' = idx + 1
    /\ UNCHANGED <<pc, lines, otherVars>>

FlowLoaded ==
    /\ Goto("flow_load", Len(lines), "flow_tasks")
    /\ UNCHANGED <<lines, events, otherVars>>

\* "for block in content" without a test of the type of content: a list
\* gives its items, a str its characters, a dict its keys, and the loop
\* raises for every other content
UnguardedContent(event) ==
    LET message == Get(event, Key("message"), EmptyObj)
        content == Get(message, Key("content"), EmptyList)
    IN  IF ~IsObj(message) THEN [raised |-> TRUE, blocks |-> <<>>]
        ELSE CASE content.t = "list" -> [raised |-> FALSE, blocks |-> Items(content)]
               [] content.t = "str" ->
                    [raised |-> FALSE,
                     blocks |-> [i \in 1..Len(content.s) |-> JStr(<<content.s[i]>>)]]
               [] content.t = "obj" ->
                    [raised |-> FALSE,
                     blocks |-> [i \in 1..Len(content.kids) |-> JStr(content.kids[i].k)]]
               [] OTHER -> [raised |-> TRUE, blocks |-> <<>>]

\* s.split(): the words between the blanks
RECURSIVE Split(_, _)
Split(s, word) ==
    IF s = <<>> THEN (IF word = <<>> THEN <<>> ELSE <<word>>)
    ELSE IF Head(s) \in Whitespace
         THEN (IF word = <<>> THEN <<>> ELSE <<word>>) \o Split(Tail(s), <<>>)
    ELSE Split(Tail(s), Append(word, Head(s)))

\* cmd.split()[2] if len(cmd.split()) > 2 else 'unknown'
TaskId(cmd) ==
    LET words == Split(cmd.s, <<>>) IN
    IF Len(words) > 2 THEN JStr(words[3]) ELSE W("unknown")

BdUpdate == <<"bd", Blank, "update">>
BdClose == <<"bd", Blank, "close">>
InProgress == <<"in_progress">>

\* the loop "for block in content" of the task timeline, at event i
RECURSIVE TaskBlocks(_, _, _)
TaskBlocks(blocks, i, acc) ==
    IF blocks = <<>> \/ acc.raised THEN acc
    ELSE
    LET block == Head(blocks)
        input == Get(block, Key("input"), EmptyObj)
        cmd == Get(input, Key("command"), EmptyStr)
        entry(action) == [action |-> action, task_id |-> TaskId(cmd), index |-> i]
        next ==
            IF ~IsObj(block) THEN [acc EXCEPT !.raised = TRUE]
            ELSE IF ~(/\ Get(block, Key("type"), JNull) = W("tool_use")
                      /\ Get(block, Key("name"), JNull) = W("Bash")) THEN acc
            ELSE IF ~IsObj(input) \/ ~Searchable(cmd) THEN [acc EXCEPT !.raised = TRUE]
            ELSE IF PyIn(BdUpdate, cmd) /\ PyIn(InProgress, cmd)
                 THEN IF ~IsStr(cmd) THEN [acc EXCEPT !.raised = TRUE]
                      ELSE [acc EXCEPT !.found = Append(@, entry("START"))]
            ELSE IF PyIn(BdClose, cmd)
                 THEN IF ~IsStr(cmd) THEN [acc EXCEPT !.raised = TRUE]
                      ELSE [acc EXCEPT !.found = Append(@, entry("CLOSE"))]
            ELSE acc
    IN  TaskBlocks(Tail(blocks), i, next)

\* one iteration of the task timeline loop (analyze_flow.py 30-46)
FlowTask ==
    /\ pc = "flow_tasks"
    /\ idx < Len(events)
    /\ LET event == events[idx + 1]
           c == UnguardedContent(event)
           acc == IF ~IsObj(event) THEN [found |-> task_timeline, raised |-> TRUE]
                  ELSE IF Get(event, Key("type"), JNull) # W("assistant")
                       THEN [found |-> task_timeline, raised |-> FALSE]
                  ELSE TaskBlocks(c.blocks, idx,
                                  [found |-> task_timeline, raised |-> c.raised])
       IN  /\ task_timeline' = acc.found
           /\ pc' = IF acc.raised THEN "raised" ELSE pc
    /\ idx' = idx + 1
    /\ UNCHANGED <<lines, events, error_recoveries, last_error_idx, edits, reads,
                   edits_with_read,
                   decVars, summVars, findVars, stuckVars, effVars>>

FlowTasksEnd ==
    /\ Goto("flow_tasks", Len(events), "flow_errors")
    /\ UNCHANGED <<lines, events, otherVars>>

\* whether some block of a user event is a tool_result with is_error set;
\* raised where a block is not a dict
RECURSIVE ErrorBlocks(_)
ErrorBlocks(blocks) ==
    IF blocks = <<>> THEN [raised |-> FALSE, error |-> FALSE]
    ELSE IF ~IsObj(Head(blocks)) THEN [raised |-> TRUE, error |-> FALSE]
    ELSE LET rest == ErrorBlocks(Tail(blocks)) IN
         IF /\ Get(Head(blocks), Key("type"), JNull) = W("tool_result")
            /\ Truthy(Get(Head(blocks), Key("is_error"), JNull))
         THEN [rest EXCEPT !.error = TRUE]
         ELSE rest

recovery_words ==
    { <<"fix">>, <<"let", Blank, "me">>, <<"try">>, <<"install">>, <<"check">> }

\* the first text block with a recovery word: its text[:80]; raised where
\* the loop raises before it
RECURSIVE RecoveryText(_)
RecoveryText(blocks) ==
    IF blocks = <<>> THEN [raised |-> FALSE, found |-> FALSE, text |-> EmptyStr]
    ELSE LET block == Head(blocks)
             text == Get(block, Key("text"), EmptyStr)
         IN  IF ~IsObj(block)
             THEN [raised |-> TRUE, found |-> FALSE, text |-> EmptyStr]
             ELSE IF Get(block, Key("type"), JNull) # W("text")
                  THEN RecoveryText(Tail(blocks))
             ELSE IF ~IsStr(text)
                  THEN [raised |-> TRUE, found |-> FALSE, text |-> EmptyStr]
             ELSE IF ContainsAny(JStr(Lower(Prefix(text, 80).s)), recovery_words)
                  THEN [raised |-> FALSE, found |-> TRUE, text |-> Prefix(text, 80)]
             ELSE RecoveryText(Tail(blocks))

\* "if last_error_idx": None and 0 are false
IndexTruthy(x) == x.some /\ x.i # 0

\* a matcher that keeps the first pending error
NoteErrorKeepsFirst(st, i) ==
    LET event == events[i + 1]
        c == UnguardedContent(event)
        e == ErrorBlocks(c.blocks)
    IN  IF Get(event, Key("type"), JNull) # W("user") THEN st
        ELSE IF c.raised \/ e.raised THEN [st EXCEPT !.raised = TRUE]
        ELSE IF e.error /\ ~st.last.some THEN [st EXCEPT !.last = SomeIndex(i)]
        ELSE st

\* the first half of the loop body: a user event with an error sets
\* last_error_idx
NoteError(st, i) ==
    LET event == events[i + 1]
        c == UnguardedContent(event)
        e == ErrorBlocks(c.blocks)
    IN  IF Get(event, Key("type"), JNull) # W("user") THEN st
        ELSE IF c.raised \/ e.raised THEN [st EXCEPT !.raised = TRUE]
        ELSE IF e.error THEN [st EXCEPT !.last = SomeIndex(i)]
        ELSE st

\* the second half: an assistant event with a recovery text is paired with
\* the pending error
NoteRecovery(st, i) ==
    LET event == events[i + 1]
        c == UnguardedContent(event)
        r == RecoveryText(c.blocks)
    IN  IF ~(Get(event, Key("type"), JNull) = W("assistant") /\ IndexTruthy(st.last))
        THEN st
        ELSE IF c.raised \/ r.raised THEN [st EXCEPT !.raised = TRUE]
        ELSE IF r.found
             THEN [st EXCEPT
                     !.found = Append(@, [error |-> st.last.i, recovery |-> i,
                                          text |-> r.text]),
                     !.last = NoIndex]
        ELSE st

\* the body of the error -> recovery loop, at event i
ErrorStep(st, i) ==
    IF ~IsObj(events[i + 1]) THEN [st EXCEPT !.raised = TRUE]
    ELSE LET st1 == NoteError(st, i) IN
         IF st1.raised THEN st1 ELSE NoteRecovery(st1, i)

\* one iteration of the error -> recovery loop (analyze_flow.py 62-79)
FlowError ==
    /\ pc = "flow_errors"
    /\ idx < Len(events)
    /\ LET st == ErrorStep([last |-> last_error_idx, found |-> error_recoveries,
                            raised |-> FALSE], idx)
       IN  /\ last_error_idx' = st.last
           /\ error_recoveries' = st.found
           /\ pc' = IF st.raised THEN "raised" ELSE pc
    /\ idx' = idx + 1
    /\ UNCHANGED <<lines, events, task_timeline, edits, reads, edits_with_read,
                   decVars, summVars, findVars, stuckVars, effVars>>

FlowErrorsEnd ==
    /\ Goto("flow_errors", Len(events), "flow_edits")
    /\ UNCHANGED <<lines, events, otherVars>>

\* the loop "for block in content" of the read-before-edit scan, at event i
RECURSIVE EditBlocks(_, _, _)
EditBlocks(blocks, i, acc) ==
    IF blocks = <<>> \/ acc.raised THEN acc
    ELSE
    LET block == Head(blocks)
        name == Get(block, Key("name"), JNull)
        inp == Get(block, Key("input"), EmptyObj)
        fp == Get(inp, Key("file_path"), EmptyStr)
        next ==
            IF ~IsObj(block) THEN [acc EXCEPT !.raised = TRUE]
            ELSE IF Get(block, Key("type"), JNull) # W("tool_use") THEN acc
            ELSE IF name \notin {W("Read"), W("Edit")} THEN acc
            ELSE IF ~IsObj(inp) \/ ~Hashable(fp) THEN [acc EXCEPT !.raised = TRUE]
            ELSE IF name = W("Read") THEN [acc EXCEPT !.reads = @ \cup {fp}]
            ELSE [acc EXCEPT !.edits =
                     Append(@, [index |-> i, fp |-> fp, had_read |-> fp \in acc.reads])]
    IN  EditBlocks(Tail(blocks), i, next)

\* the reads of the blocks, whatever their place among the blocks
RECURSIVE ReadsOf(_)
ReadsOf(blocks) ==
    IF blocks = <<>> THEN {}
    ELSE (IF /\ IsObj(Head(blocks))
             /\ Get(Head(blocks), Key("type"), JNull) = W("tool_use")
             /\ Get(Head(blocks), Key("name"), JNull) = W("Read")
          THEN {Get(Get(Head(blocks), Key("input"), EmptyObj), Key("file_path"), EmptyStr)}
          ELSE {}) \cup ReadsOf(Tail(blocks))

\* a scan that takes the reads of an event before its edits
EditStepReadsFirst(acc, i) ==
    LET event == events[i + 1]
        c == UnguardedContent(event)
    IN  IF ~IsObj(event) THEN [acc EXCEPT !.raised = TRUE]
        ELSE IF Get(event, Key("type"), JNull) # W("assistant") THEN acc
        ELSE IF c.raised THEN [acc EXCEPT !.raised = TRUE]
        ELSE EditBlocks(c.blocks, i, [acc EXCEPT !.reads = @ \cup ReadsOf(c.blocks)])

\* the body of the read-before-edit loop, at event i
EditStep(acc, i) ==
    LET event == events[i + 1]
        c == UnguardedContent(event)
    IN  IF ~IsObj(event) THEN [acc EXCEPT !.raised = TRUE]
        ELSE IF Get(event, Key("type"), JNull) # W("assistant") THEN acc
        ELSE IF c.raised THEN [acc EXCEPT !.raised = TRUE]
        ELSE EditBlocks(c.blocks, i, acc)

\* one iteration of the read-before-edit loop (analyze_flow.py 92-106)
FlowEdit ==
    /\ pc = "flow_edits"
    /\ idx < Len(events)
    /\ LET acc == EditStep([edits |-> edits, reads |-> reads, raised |-> FALSE], idx)
       IN  /\ edits' = acc.edits
           /\ reads' = acc.reads
           /\ pc' = IF acc.raised THEN "raised" ELSE pc
    /\ idx' = idx + 1
    /\ UNCHANGED <<lines, events, task_timeline, error_recoveries, last_error_idx,
                   edits_with_read,
                   decVars, summVars, findVars, stuckVars, effVars>>

\* edits_with_read = sum(1 for _, _, had in edits if had) (108-110)
FlowEditsEnd ==
    /\ Goto("flow_edits", Len(events), "flow_done")
    /\ edits_with_read' = Cardinality({e \in 1..Len(edits) : edits[e].had_read})
    /\ UNCHANGED <<lines, events, task_timeline, error_recoveries, last_error_idx,
                   edits, reads,
                   decVars, summVars, findVars, stuckVars, effVars>>

NextFlow ==
    \/ FlowLoad \/ FlowLoaded
    \/ FlowTask \/ FlowTasksEnd
    \/ FlowError \/ FlowErrorsEnd
    \/ FlowEdit \/ FlowEditsEnd

(* ---------------------------------------------------------------------- *)
(* Log files for analyze_flow                                              *)
(* ---------------------------------------------------------------------- *)
MaxErrLen == 5
MaxEditLen == 4

ErrorEvent == User(<<ToolResult(W("t"), W("boom"), JTrue)>>)
RecoveryEvent == Assistant(<<TextBlock(JStr(<<"Try", Blank, "again">>))>>)
PlainEvent == Assistant(<<TextBlock(JStr(<<"all", Blank, "done">>))>>)
ErrKinds == {ErrorEvent, RecoveryEvent, PlainEvent}

ReadUse(path) == ToolUse(W("Read"), FileInput(path), W("r"))
EditUse(path) == ToolUse(W("Edit"), FileInput(path), W("e"))
EditKinds ==
    { Assistant(<<ReadUse("a.py")>>),
      Assistant(<<EditUse("a.py")>>),
      Assistant(<<EditUse("b.py")>>),
      Assistant(<<EditUse("a.py"), ReadUse("a.py")>>),
      Assistant(<<ReadUse("b.py"), EditUse("b.py")>>) }

\* the sequences of at most n members of S
RECURSIVE SeqsUpTo(_, _)
SeqsUpTo(S, n) ==
    IF n = 0 THEN {<<>>}
    ELSE LET shorter == SeqsUpTo(S, n - 1) IN
         shorter \cup {Append(q, x) : q \in shorter, x \in S}

FileOf(evs) == [i \in 1..Len(evs) |-> EventLine(evs[i])]

FlowFiles ==
    {FileOf(evs) : evs \in SeqsUpTo(ErrKinds, MaxErrLen)}
    \cup {FileOf(evs) : evs \in SeqsUpTo(EditKinds, MaxEditLen)}

InitFlow ==
    /\ pc = "flow_load"
    /\ lines \in FlowFiles
    /\ idx = 0
    /\ events = <<>>
    /\ DecodeIdle /\ SummIdle /\ FindIdle /\ StuckIdle /\ FlowIdle /\ EffIdle

SpecFlow == InitFlow /\ [][NextFlow]_vars

(* ---------------------------------------------------------------------- *)
(* Claims on analyze_flow                                                  *)
(* ---------------------------------------------------------------------- *)
FlowLoadedAll == pc \in {"flow_tasks", "flow_errors", "flow_edits", "flow_done"}

\* the event at 0-based index j is a user event with an error tool result
IsErrorEvent(j) ==
    /\ Get(events[j + 1], Key("type"), JNull) = W("user")
    /\ \E b \in 1..Len(GuardedContent(events[j + 1]).blocks) :
        LET block == GuardedContent(events[j + 1]).blocks[b] IN
        /\ Get(block, Key("type"), JNull) = W("tool_result")
        /\ Truthy(Get(block, Key("is_error"), JNull))

\* C4: a pairing (e, r) names the most recent error before r: e is an error
\* event, e < r, and no error event lies between them; an earlier error that
\* was overwritten is never paired.
C4_PairsMostRecentError ==
    FlowLoadedAll =>
        \A p \in 1..Len(error_recoveries) :
            LET e == error_recoveries[p].error
                r == error_recoveries[p].recovery
            IN  /\ e < r
                /\ IsErrorEvent(e)
                /\ \A j \in (e + 1)..(r - 1) : ~IsErrorEvent(j)

\* [Error@1, Error@3, Text("try again")@4] has given the pairing (3, 4) only
C4_WitnessSecondErrorPaired ==
    /\ pc = "flow_done"
    /\ Len(events) = 5
    /\ IsErrorEvent(1) /\ IsErrorEvent(3)
    /\ Len(error_recoveries) = 1
    /\ error_recoveries[1].error = 3
    /\ error_recoveries[1].recovery = 4

\* the Read and Edit invocations of all events, in scan order
RECURSIVE FileUsesFrom(_)
FileUsesFrom(j) ==
    IF j >= Len(events) THEN <<>>
    ELSE LET tools == find_tool_uses(events[j + 1]).tools IN
         [i \in 1..Len(tools) |-> [index |-> j, name |-> tools[i].name,
                                   fp |-> Get(tools[i].input, Key("file_path"), EmptyStr)]]
         \o FileUsesFrom(j + 1)
FileUses == FileUsesFrom(0)
EditPositions == {q \in 1..Len(FileUses) : FileUses[q].name = W("Edit")}
\* the position in scan order of the k-th Edit
EditPosition(k) ==
    CHOOSE q \in EditPositions : Cardinality({o \in EditPositions : o <= q}) = k

\* C7: an Edit counts as read before iff a Read of the same path comes
\* strictly earlier in scan order; the covered edits are no more than the edits.
C7_ReadStrictlyBeforeEdit ==
    pc = "flow_done" =>
        /\ Len(edits) = Cardinality(EditPositions)
        /\ \A k \in 1..Len(edits) :
            /\ edits[k].fp = FileUses[EditPosition(k)].fp
            /\ edits[k].had_read <=>
                 \E q \in 1..(EditPosition(k) - 1) :
                    /\ FileUses[q].name = W("Read")
                    /\ FileUses[q].fp = edits[k].fp
        /\ edits_with_read = Cardinality({k \in 1..Len(edits) : edits[k].had_read})
        /\ edits_with_read <= Len(edits)

\* [Read(a.py), Edit(a.py), Edit(b.py)] has given 1 of 2
C7_WitnessOneOfTwo ==
    /\ pc = "flow_done"
    /\ Len(events) = 3
    /\ Len(edits) = 2
    /\ edits[1].had_read /\ ~edits[2].had_read
    /\ edits_with_read = 1

(* ---------------------------------------------------------------------- *)
(* analyze_efficiency                                                      *)
(* ---------------------------------------------------------------------- *)
EffLoad == LoadRepair("eff_load")

tool_categories ==
    << [cat |-> "orientation",
        patterns |-> { <<"bd", Blank, "ready">>, <<"bd", Blank, "show">>,
                       <<"bd", Blank, "list">> }],
       [cat |-> "claiming", patterns |-> { <<"bd", Blank, "update">> }],
       [cat |-> "reading", patterns |-> { <<"Read">>, <<"Glob">> }],
       [cat |-> "testing",
        patterns |-> { <<"cargo", Blank, "test">>, <<"pytest">>,
                       <<"npm", Blank, "test">>,
                       <<"python", Blank, "-m", Blank, "pytest">> }],
       [cat |-> "editing", patterns |-> { <<"Edit">>, <<"Write">> }],
       [cat |-> "closing", patterns |-> { <<"bd", Blank, "close">> }],
       [cat |-> "git", patterns |-> { <<"git", Blank>> }],
       [cat |-> "env_setup",
        patterns |-> { <<"apt-get">>, <<"dnf">>, <<"pip">>, <<"which">>,
                       <<"curl">> }] >>

\* {k: 0 for k in tool_categories}, then category_counts['other'] = 0
ZeroCounts ==
    [i \in 1..Len(tool_categories) |-> [k |-> tool_categories[i].cat, n |-> 0]]
        \o << [k |-> "other", n |-> 0] >>

\* the end of the loading loop, and category_counts of lines 42-43
EffLoaded ==
    /\ Goto("eff_load", Len(lines), "eff_scan")
    /\ category_counts' = ZeroCounts
    /\ UNCHANGED <<lines, events, total,
                   decVars, summVars, findVars, stuckVars, flowVars>>

\* category_counts[cat] += 1
Increment(counts, cat) ==
    [i \in 1..Len(counts) |->
        IF counts[i].k = cat THEN [counts[i] EXCEPT !.n = @ + 1] ELSE counts[i]]

\* category_counts[cat]
CountOf(counts, cat) ==
    counts[CHOOSE i \in 1..Len(counts) : counts[i].k = cat].n

\* the loop of lines 58-64 without its break, keeping the last increment:
\* the last category with a pattern in cmd is the one counted
CategorizeLast(cmd, c, counts) ==
    LET hits == { i \in c..Len(tool_categories) :
                    ContainsAny(cmd, tool_categories[i].patterns) }
    IN  IF hits = {} THEN Increment(counts, "other")
        ELSE Increment(counts,
                 tool_categories[CHOOSE i \in hits : \A j \in hits : j <= i].cat)

\* the loop over tool_categories.items() from category c on (58-64): the
\* first category with a pattern in cmd is incremented and ends the loop
RECURSIVE Categorize(_, _, _)
Categorize(cmd, c, counts) ==
    IF c > Len(tool_categories) THEN Increment(counts, "other")
    ELSE IF ContainsAny(cmd, tool_categories[c].patterns)
         THEN Increment(counts, tool_categories[c].cat)
    ELSE Categorize(cmd, c + 1, counts)

\* cmd = inp.get('command', '') if name == 'Bash' else name
MatchTarget(block) ==
    LET name == Get(block, Key("name"), EmptyStr)
        inp == Get(block, Key("input"), EmptyObj)
    IN  IF name = W("Bash") THEN Get(inp, Key("command"), EmptyStr) ELSE name

\* the loop "for block in content" (50-64)
RECURSIVE EffBlocks(_, _)
EffBlocks(blocks, acc) ==
    IF blocks = <<>> \/ acc.raised THEN acc
    ELSE
    LET block == Head(blocks)
        name == Get(block, Key("name"), EmptyStr)
        inp == Get(block, Key("input"), EmptyObj)
        cmd == MatchTarget(block)
        next ==
            IF ~IsObj(block) THEN [acc EXCEPT !.raised = TRUE]
            ELSE IF Get(block, Key("type"), JNull) # W("tool_use") THEN acc
            ELSE IF name = W("Bash") /\ ~IsObj(inp)
                 THEN [acc EXCEPT !.raised = TRUE]
            ELSE IF ~Searchable(cmd) THEN [acc EXCEPT !.raised = TRUE]
            ELSE [acc EXCEPT !.counts = Categorize(cmd, 1, @)]
    IN  EffBlocks(Tail(blocks), next)

\* one iteration of "for event in events" (45-64)
EffEvent ==
    /\ pc = "eff_scan"
    /\ idx < Len(events)
    /\ LET event == events[idx + 1]
           c == UnguardedContent(event)
           acc == IF ~IsObj(event) THEN [counts |-> category_counts, raised |-> TRUE]
                  ELSE IF Get(event, Key("type"), JNull) # W("assistant")
                       THEN [counts |-> category_counts, raised |-> FALSE]
                  ELSE EffBlocks(c.blocks,
                                 [counts |-> category_counts, raised |-> c.raised])
       IN  /\ category_counts' = acc.counts
           /\ pc' = IF acc.raised THEN "raised" ELSE pc
    /\ idx' = idx + 1
    /\ UNCHANGED <<lines, events, total,
                   decVars, summVars, findVars, stuckVars, flowVars>>

\* sum(category_counts.values())
RECURSIVE SumCounts(_)
SumCounts(counts) ==
    IF counts = <<>> THEN 0 ELSE Head(counts).n + SumCounts(Tail(counts))

\* the report (66-81): the table guards its division with "if total", the
\* three lines after it divide by total unguarded
EffReport ==
    /\ pc = "eff_scan"
    /\ idx = Len(events)
    /\ total' = SumCounts(category_counts)
    /\ pc' = IF total' = 0 THEN "raised" ELSE "eff_done"
    /\ idx' = 0
    /\ UNCHANGED <<lines, events, category_counts,
                   decVars, summVars, findVars, stuckVars, flowVars>>

NextEfficiency == EffLoad \/ EffLoaded \/ EffEvent \/ EffReport

(* ---------------------------------------------------------------------- *)
(* Log files for analyze_efficiency                                        *)
(* ---------------------------------------------------------------------- *)
MaxEffLen == 3
EffKinds == {"update", "git_update", "test", "close", "git", "ls", "read",
             "edit", "text"}

GitBdUpdate ==
    <<"git", Blank, "commit", Blank, "-m", Blank, "bd", Blank, "update">>

EffBlock(kind) ==
    CASE kind = "update" ->
            Bash(<<"bd", Blank, "update", Blank, "x", Blank, "in_progress">>, "t")
      [] kind = "git_update" -> Bash(GitBdUpdate, "t")
      [] kind = "test" -> Bash(<<"cargo", Blank, "test">>, "t")
      [] kind = "close" -> Bash(<<"bd", Blank, "close", Blank, "x">>, "t")
      [] kind = "git" -> Bash(<<"git", Blank, "status">>, "t")
      [] kind = "ls" -> Bash(<<"ls">>, "t")
      [] kind = "read" -> ReadUse("a.py")
      [] kind = "edit" -> EditUse("a.py")
      [] OTHER -> TextBlock(W("ok"))

EffFiles ==
    { [i \in 1..Len(ks) |-> EventLine(Assistant(<<EffBlock(ks[i])>>))] :
        ks \in SeqsUpTo(EffKinds, MaxEffLen) }

InitEfficiency ==
    /\ pc = "eff_load"
    /\ lines \in EffFiles
    /\ idx = 0
    /\ events = <<>>
    /\ DecodeIdle /\ SummIdle /\ FindIdle /\ StuckIdle /\ FlowIdle /\ EffIdle

SpecEfficiency == InitEfficiency /\ [][NextEfficiency]_vars

(* ---------------------------------------------------------------------- *)
(* Claims on analyze_efficiency                                            *)
(* ---------------------------------------------------------------------- *)
EffCounting == pc \in {"eff_scan", "eff_done", "raised"}

\* the events the classifier has gone through
EffScanned == IF pc = "eff_scan" THEN idx ELSE Len(events)

\* the tool_use blocks of the first n events
RECURSIVE EffUsesFrom(_, _)
EffUsesFrom(i, n) ==
    IF i > n THEN <<>>
    ELSE SelectSeq(Items(Get(Get(events[i], Key("message"), EmptyObj),
                             Key("content"), EmptyList)),
                   LAMBDA b : Get(b, Key("type"), JNull) = W("tool_use"))
         \o EffUsesFrom(i + 1, n)

\* the command of a Bash invocation, the tool name of any other
TargetOf(use) ==
    IF use.kids[2].v = W("Bash") THEN use.kids[3].v.kids[1].v
    ELSE use.kids[2].v

Matches(target, c) ==
    \E p \in tool_categories[c].patterns : Contains(target.s, p)

\* the earliest declared category with a matching pattern, or other
FirstCategory(target) ==
    IF \E c \in 1..Len(tool_categories) : Matches(target, c)
    THEN tool_categories[CHOOSE c \in 1..Len(tool_categories) :
                            /\ Matches(target, c)
                            /\ \A d \in 1..(c - 1) : ~Matches(target, d)].cat
    ELSE "other"

\* C6: every tool invocation is counted in exactly one category, the
\* earliest declared one with a pattern that is a substring of the command
\* text (Bash) or of the tool name (other tools), or in other when no
\* pattern matches; the counts sum to the number of tool invocations, and a
\* Bash command with both "git " and "bd update" in it is counted under
\* claiming, declared before git
C6_FirstDeclaredCategoryCounts ==
    EffCounting =>
        LET uses == EffUsesFrom(1, EffScanned)
            both == { j \in 1..Len(uses) :
                        /\ Contains(TargetOf(uses[j]).s, <<"git", Blank>>)
                        /\ Contains(TargetOf(uses[j]).s, BdUpdate) }
        IN  /\ \A i \in 1..Len(category_counts) :
                category_counts[i].n =
                    Cardinality({ j \in 1..Len(uses) :
                        FirstCategory(TargetOf(uses[j])) = category_counts[i].k })
            /\ SumCounts(category_counts) = Len(uses)
            /\ pc = "eff_done" => total = Len(uses)
            /\ (both # {} /\ Cardinality(both) = Len(uses)) =>
                    /\ CountOf(category_counts, "claiming") = Len(uses)
                    /\ CountOf(category_counts, "git") = 0

\* a finished run on a transcript whose every invocation is a Bash command
\* with both "git " and "bd update" in it
C6_WitnessGitAndBdUpdate ==
    /\ pc = "eff_done"
    /\ Len(events) = 2
    /\ \A i \in 1..2 : events[i] = Assistant(<<EffBlock("git_update")>>)
    /\ CountOf(category_counts, "claiming") = 2
    /\ total = 2

\* C8: no input aborts a run: every analysis runs to completion without
\* raising an error, also on a transcript with no tool invocations
C8_NoRunRaises == pc # "raised"

(* ---------------------------------------------------------------------- *)
(* The three reports on one well-formed transcript                         *)
(* ---------------------------------------------------------------------- *)
FillerKinds == {"text", "thinking", "system"}

FillerLine(kind) ==
    CASE kind = "text" -> TextLine
      [] kind = "thinking" -> EventLine(Assistant(<<ThinkingBlock(W("hm"))>>))
      [] OTHER -> EventLine(System)

\* an invocation and its result, not an error
Invocation(cmd, id) ==
    << EventLine(Assistant(<<Bash(cmd, id)>>)),
       EventLine(User(<<ToolResult(W(id), W("ok"), JFalse)>>)) >>

\* 20 lines: the start of the iteration, three Bash invocations with their
\* results, and the end of the iteration with duration_seconds 42 and
\* exit_code 0
Transcript(filler) ==
    << EventLine(System), EventLine(LoopMeta("iteration_start", StartData)) >>
    \o <<FillerLine(filler)>>
    \o Invocation(<<"bd", Blank, "update", Blank, "x", Blank, "in_progress">>, "t1")
    \o <<FillerLine(filler)>>
    \o Invocation(<<"cargo", Blank, "test">>, "t2")
    \o <<FillerLine(filler)>>
    \o Invocation(<<"bd", Blank, "close", Blank, "x">>, "t3")
    \o Repeat(FillerLine(filler), 8)
    \o << EventLine(LoopMeta("iteration_end", EndData)) >>

\* one of the scripts is run on the transcript
InitEndToEnd ==
    /\ pc \in {"summ_lines", "stuck_load", "eff_load"}
    /\ lines \in { Transcript(filler) : filler \in FillerKinds }
    /\ idx = 0
    /\ events = <<>>
    /\ DecodeIdle /\ SummIdle /\ FindIdle /\ StuckIdle /\ FlowIdle /\ EffIdle

NextEndToEnd == NextSummarize \/ NextStuck \/ NextEfficiency

SpecEndToEnd == InitEndToEnd /\ [][NextEndToEnd]_vars

\* C9: on a well-formed 20-line transcript with one iteration_start and
\* iteration_end pair (duration_seconds 42, exit_code 0) and the Bash
\* invocations bd update x in_progress, cargo test (result not an error)
\* and bd close x, the reports are: 1 completed iteration, 0 failures;
\* claiming, testing and closing counted once each; no environment issue;
\* one test attempt, which passes
C9_EndToEndReport ==
    /\ Len(lines) = 20
    /\ pc # "raised"
    /\ pc = "summ_done" => (completed = 1 /\ failures = 0)
    /\ pc = "eff_done" =>
            /\ CountOf(category_counts, "claiming") = 1
            /\ CountOf(category_counts, "testing") = 1
            /\ CountOf(category_counts, "closing") = 1
            /\ total = 3
    /\ pc = "stuck_done" =>
            /\ issues = <<>>
            /\ Len(attempts) = 1
            /\ passed = 1 /\ failed = 0

(* ---------------------------------------------------------------------- *)
(* Log files for find_environment_issues and analyze_test_attempts         *)
(* ---------------------------------------------------------------------- *)
MaxIssueLen == 3
UseKinds == {"bash_ls", "bash_test", "read"}
ResultKinds == {"ok", "err", "err_list", "warn"}

\* an invocation with id t, or a result for id t: a plain one, an error
\* with a text, an error with a list of blocks as its content, and a
\* result that is no error and holds one of the phrases
IssueEvent(kind) ==
    CASE kind = "bash_ls" -> Assistant(<<Bash(<<"ls">>, "t")>>)
      [] kind = "bash_test" -> Assistant(<<Bash(<<"cargo", Blank, "test">>, "t")>>)
      [] kind = "read" -> Assistant(<<ToolUse(W("Read"), FileInput("a.py"), W("t"))>>)
      [] kind = "ok" -> User(<<ToolResult(W("t"), W("ok"), JFalse)>>)
      [] kind = "err" ->
            User(<<ToolResult(W("t"), JStr(<<"exit", Blank, "1">>), JTrue)>>)
      [] kind = "err_list" ->
            User(<<ToolResult(W("t"), JList(<<TextBlock(W("boom"))>>), JTrue)>>)
      [] OTHER ->
            User(<<ToolResult(W("t"),
                              JStr(<<"ls", Colon, Blank, "Permission", Blank, "denied">>),
                              JFalse)>>)

\* an invocation and a result with n lines of text between them
Gapped(use, n, res) ==
    <<EventLine(IssueEvent(use))>> \o Repeat(TextLine, n)
        \o <<EventLine(IssueEvent(res))>>

\* every sequence of up to MaxIssueLen invocations and results, and for
\* every invocation and result the two files that put the result on the
\* last event of the horizon and on the first one after it
IssueFiles ==
    { [i \in 1..Len(ks) |-> EventLine(IssueEvent(ks[i]))] :
        ks \in SeqsUpTo(UseKinds \cup ResultKinds, MaxIssueLen) }
    \cup { Gapped(use, n, res) :
            use \in UseKinds, n \in {Horizon - 2, Horizon - 1}, res \in ResultKinds }

InitIssues ==
    /\ pc = "stuck_load"
    /\ lines \in IssueFiles
    /\ idx = 0
    /\ events = <<>>
    /\ DecodeIdle /\ SummIdle /\ FindIdle /\ StuckIdle /\ FlowIdle /\ EffIdle

SpecIssues == InitIssues /\ [][NextStuck]_vars

(* ---------------------------------------------------------------------- *)
(* Claims on find_environment_issues                                       *)
(* ---------------------------------------------------------------------- *)
EnvScanned == pc \in {"stuck_tests", "stuck_done"}

\* the tool_use blocks of event i (0-based)
UsesOf(i) == find_tool_uses(events[i + 1]).tools

\* error for a matched result with is_error set, warning for another
\* matched result whose content is a string with one of the phrases
FindingKind(res) ==
    IF ~res.found THEN "none"
    ELSE IF Truthy(res.is_error) THEN "error"
    ELSE IF IsStr(res.content)
            /\ \E p \in error_patterns : Contains(Lower(res.content.s), p)
         THEN "warning"
    ELSE "none"

\* the findings of the invocations of event i from the k-th on
RECURSIVE FindingsOfEvent(_, _)
FindingsOfEvent(i, k) ==
    IF k > Len(UsesOf(i)) THEN <<>>
    ELSE LET tool == UsesOf(i)[k]
             kind == FindingKind(find_tool_result(events, tool.id, i))
         IN  (IF tool.name = W("Bash") /\ kind # "none"
              THEN <<[index |-> i, type |-> kind]>> ELSE <<>>)
             \o FindingsOfEvent(i, k + 1)

RECURSIVE FindingsFrom(_)
FindingsFrom(i) ==
    IF i >= Len(events) THEN <<>>
    ELSE FindingsOfEvent(i, 1) \o FindingsFrom(i + 1)

\* C11: every Bash invocation with a matched result within the horizon
\* gives exactly one finding of kind error when the result's is_error is
\* set, whatever the type of the content, else exactly one finding of kind
\* warning when the content is a string with one of the phrases in it,
\* case-insensitively, else none; a Bash invocation without a matched
\* result and an invocation of another tool give none
C11_OneFindingPerMatchedResult ==
    EnvScanned =>
        [k \in 1..Len(issues) |-> [index |-> issues[k].index, type |-> issues[k].type]]
            = FindingsFrom(0)

(* ---------------------------------------------------------------------- *)
(* Claims on analyze_test_attempts                                         *)
(* ---------------------------------------------------------------------- *)
TestsScanning == pc \in {"stuck_tests", "stuck_done"}

\* the events analyze_test_attempts has gone through
TestsScanned == IF pc = "stuck_tests" THEN idx ELSE Len(events)

IsTestCommand(cmd) ==
    IsStr(cmd) /\ \E p \in test_patterns : Contains(cmd.s, p)

\* the attempt for a test or build command of event i, from the matched
\* result, or from no result
AttemptOf(i, tool) ==
    LET res == find_tool_result(events, tool.id, i) IN
    [index |-> i,
     command |-> tool.input.kids[1].v,
     is_error |-> IF res.found THEN res.is_error ELSE JFalse,
     output_preview |-> IF res.found /\ IsStr(res.content) THEN res.content
                        ELSE EmptyStr]

\* the attempts of the invocations of event i from the k-th on
RECURSIVE AttemptsOfEvent(_, _)
AttemptsOfEvent(i, k) ==
    IF k > Len(UsesOf(i)) THEN <<>>
    ELSE LET tool == UsesOf(i)[k] IN
         (IF tool.name = W("Bash") /\ IsTestCommand(tool.input.kids[1].v)
          THEN <<AttemptOf(i, tool)>> ELSE <<>>)
         \o AttemptsOfEvent(i, k + 1)

RECURSIVE AttemptsFrom(_, _)
AttemptsFrom(i, n) ==
    IF i >= n THEN <<>>
    ELSE AttemptsOfEvent(i, 1) \o AttemptsFrom(i + 1, n)

\* C12: one attempt for every Bash invocation whose command holds one of
\* the test and build substrings, and none for any other invocation; its
\* is_error is that of the matched result, and is false, with an empty
\* excerpt, where no result is found within the horizon; passed and failed
\* partition the attempts
C12_OneAttemptPerTestCommand ==
    TestsScanning =>
        /\ attempts = AttemptsFrom(0, TestsScanned)
        /\ pc = "stuck_done" =>
            /\ passed + failed = Len(attempts)
            /\ failed = Cardinality({ k \in 1..Len(attempts) :
                                        attempts[k].is_error = JTrue })

\* a finished run with one attempt, whose result lies one event beyond the
\* horizon
C12_WitnessFoundAndNotFound ==
    /\ pc = "stuck_done"
    /\ Len(attempts) = 1
    /\ Len(events) = Horizon + 1
    /\ ~find_tool_result(events, W("t"), 0).found
    /\ attempts[1].is_error = JFalse
    /\ attempts[1].output_preview = EmptyStr
    /\ passed = 1 /\ failed = 0

\* a finished run with an attempt that failed and one without a result
C12_WitnessFailedAttempt ==
    /\ pc = "stuck_done"
    /\ Len(attempts) = 2
    /\ attempts[1].is_error = JTrue
    /\ ~find_tool_result(events, W("t"), attempts[2].index).found
    /\ passed = 1 /\ failed = 1

\* an assistant event with a text block whose lowercase text holds one of
\* the recovery words
IsRecoveryEvent(j) ==
    /\ Get(events[j + 1], Key("type"), JNull) = W("assistant")
    /\ \E b \in 1..Len(GuardedContent(events[j + 1]).blocks) :
        LET block == GuardedContent(events[j + 1]).blocks[b] IN
        /\ Get(block, Key("type"), JNull) = W("text")
        /\ \E w \in recovery_words :
            Contains(Lower(Get(block, Key("text"), EmptyStr).s), w)

ErrorsScanned == pc \in {"flow_edits", "flow_done"}

\* C13: every error result, at any event index e, index 0 included, that is
\* still the most recent error when the first later assistant event with a
\* recovery word in a text block is scanned, at index r, gives the pairing
\* (e, r)
C13_EveryPendingErrorPaired ==
    ErrorsScanned =>
        \A e \in 0..(Len(events) - 1), r \in 0..(Len(events) - 1) :
            ( /\ e < r
              /\ IsErrorEvent(e)
              /\ IsRecoveryEvent(r)
              /\ \A j \in (e + 1)..(r - 1) : ~IsErrorEvent(j) /\ ~IsRecoveryEvent(j) )
            => \E p \in 1..Len(error_recoveries) :
                    /\ error_recoveries[p].error = e
                    /\ error_recoveries[p].recovery = r

(* ---------------------------------------------------------------------- *)
(* The decoders on damaged lines                                           *)
(* ---------------------------------------------------------------------- *)
MaxBraces == 4
Tails == { <<>>, <<Blank>>, <<Blank, RBrace>>, <<Comma>> }

\* the serialization of an event followed by up to MaxBraces closing braces
\* and a tail, the serialization cut short by one character, and a blank
\* line
RepairLines ==
    { LineOf(Dumps(v) \o Braces(k) \o tail) :
        v \in DecValues, k \in 0..MaxBraces, tail \in Tails }
    \cup { LineOf(DropLast(Dumps(v))) : v \in DecValues }
    \cup { LineOf(<<>>), LineOf(<<Blank, Blank>>) }

InitRepair ==
    /\ pc = "decode"
    /\ line \in RepairLines
    /\ value = JNull /\ extra = 0
    /\ narrow = JNull
    /\ repair = JNull
    /\ lines = <<>>
    /\ idx = 0
    /\ events = <<>>
    /\ SummIdle /\ FindIdle /\ StuckIdle /\ FlowIdle /\ EffIdle

NextRepair == DecodeNarrow \/ DecodeRepair

SpecRepair == InitRepair /\ [][NextRepair]_vars

\* the closing braces at the end of a text
RECURSIVE TrailingBraces(_)
TrailingBraces(l) ==
    IF l # <<>> /\ l[Len(l)] = RBrace THEN 1 + TrailingBraces(DropLast(l)) ELSE 0

\* the text without its last k characters
DropLastN(l, k) == SubSeq(l, 1, Len(l) - k)

\* the numbers k of removed trailing braces, within the budget, for which
\* the rest decodes
Repairs(l) ==
    { k \in 1..Min(RepairBudget, TrailingBraces(l)) : JsonLoads(DropLastN(l, k)).ok }

\* C14: the bounded-repair decoder removes at most 3 trailing closing
\* braces: a blank line gives None; a line that strict-decodes gives its
\* decode; a line that does not gives the decode of the line with the
\* smallest number k in 1..3 of trailing closing braces removed for which
\* the decode succeeds, and None when there is no such k; no value is
\* returned for content that did not decode
C14_SmallestRepairWithinBudget ==
    pc = "decoded" =>
        LET l == Strip(line) IN
        IF l = <<>> THEN repair = JNull
        ELSE IF JsonLoads(l).ok THEN repair = JsonLoads(l).val
        ELSE IF Repairs(l) = {} THEN repair = JNull
        ELSE LET k == CHOOSE k \in Repairs(l) : \A j \in Repairs(l) : k <= j
             IN  repair = JsonLoads(DropLastN(l, k)).val

\* a line with three braces too many has been repaired, one with four has
\* been given up
C14_WitnessThreeBracesRemoved ==
    /\ pc = "decoded"
    /\ ~JsonLoads(Strip(line)).ok
    /\ Repairs(Strip(line)) = {RepairBudget}
    /\ repair = LoopMeta("iteration_end", EndData)

C14_WitnessFourBracesGivenUp ==
    /\ pc = "decoded"
    /\ Strip(line) = Dumps(LoopMeta("iteration_end", EndData)) \o Braces(RepairBudget + 1)
    /\ repair = JNull

\* C15: on every line that strict-decodes, the decoder of summarize_session
\* and analyze_flow and the bounded-repair decoder of the other scripts
\* return the same event
C15_DecodersAgreeOnWellFormed ==
    (pc = "decoded" /\ JsonLoads(Strip(line)).ok) => narrow = repair

====
